---- MODULE Spec2Model ----
(***************************************************************************)
(* Role-based access control and hierarchical data isolation of the        *)
(* GenVolt web application: PermissionService (permission cache, dashboard *)
(* decisions, client hierarchy resolver) over its storage tables.          *)
(*                                                                         *)
(* Every async method runs atomically up to its next await; the storage    *)
(* answers an awaited query in a step of its own (database_query), so the  *)
(* steps of concurrent calls interleave exactly at the awaits.             *)
(***************************************************************************)
EXTENDS Integers, Sequences, FiniteSets, Bags, TLC

VARIABLES
    roles,             \* table roles: name -> [is_active, is_system_role]
    dashboards,        \* table dashboards: id -> [name, is_active]
    role_permissions,  \* table role_permissions: set of rows
    users,             \* table users: id -> [roles, client_id, can_manage_hierarchy]
    client,            \* table client: id -> [parent_client_id, hierarchy_path, is_active]
    pathStyle,         \* how hierarchy_path is written (unset until the tree is set up)
    permissionCache,   \* PermissionService.permissionCache: cacheKey -> [permissions, timestamp]
    now,               \* Date.now(), in milliseconds
    dbUp,              \* whether database.query resolves (TRUE) or rejects (FALSE)
    calls,             \* the bag of frames of the calls that await storage
    returned,          \* observation of the call that completed in the last step, if one did
    clearedSinceWrite, \* history: roles evicted by clearCache after the last matrix write
    quietCleared,      \* history: role -> the map evicted from it with no reload in flight, until its next lookup
    firstOk,           \* history: role -> the first reload stored since the last clearCache / expiry
    ticks,             \* history: number of clock steps so far
    outages            \* history: number of storage outages so far

vars == <<roles, dashboards, role_permissions, users, client, pathStyle,
          permissionCache,
          now, dbUp, calls, returned, clearedSinceWrite, quietCleared, firstOk,
          ticks, outages>>

----------------------------------------------------------------------------
(* Bounds of the model.                                                    *)

MaxInFlight == 2
MaxTicks == 1
MaxOutages == 1
MaxInactive == 1
\* rows of client whose parent link differs from the onboarded tree
MaxMoved == 1

----------------------------------------------------------------------------
(* Program constants and value domains.                                    *)

cacheTimeout == 5 * 60 * 1000

\* the falsy argument (undefined, null or the empty string)
Falsy == ""

Truthy(x) == x # Falsy

DashboardIds == {1, 2}

RoleNames == {"admin", "user", "viewer"}

\* arguments the callers pass
RoleArgs == {Falsy, "admin", "viewer"}
DashboardArgs == {Falsy, "iot_dashboard", "motor_dashboard"}

\* SQL NULL in users.client_id and client.parent_client_id, where ids start at
\* 1; like 0 and undefined it is falsy in the service's tests
Null == 0

TruthyId(x) == x # Null

\* arguments the callers pass for userId
UserArgs == {Null, 1, 2, 3, 4, 5, 6, 7, 8, 9}

\* arguments the callers pass for clientId
ClientArgs == {Null, 2, 6}
\* client ids the callers ask about: a division, a site, an id of no row
ManagedClientArgs == {2, 5, 9}

\* ids given to client nodes created after the initial tree
NewClientIds == {7, 20}

NoAnswer == [kind |-> "none"]
NoQuery == [kind |-> "none"]
NoResult == [kind |-> "none"]

BoolResult(b) == [kind |-> "bool", val |-> b]
MapResult(m) == [kind |-> "map", val |-> m]
ListResult(s) == [kind |-> "list", val |-> s]
Rejected == [kind |-> "throws"]
\* what a function without a return statement resolves to
Undefined == [kind |-> "undefined"]

EmptyObject == <<>>

\* res.status(code).json(...), and res.json(...) with code 200
Status(code) == [kind |-> "status", val |-> code]

\* a request without headers['authorization'], without a body field and
\* before authenticateToken has set req.user
NoHeaders == <<>>
NoBody == [role |-> Falsy]
NoUser == [id |-> Null, role |-> Falsy]

\* the props and the auth context of a component that is not rendered
NoProps ==
    [requiredRole |-> Falsy, isLoading |-> FALSE, isAuthenticated |-> FALSE,
     user |-> [present |-> FALSE, role |-> Falsy]]

\* the client scope of a listing before the resolver has answered
NoScope == [all |-> FALSE, ids |-> {}]

\* a call that awaits storage
NewFrame ==
    [op |-> "none", pc |-> "await", role |-> Falsy, dashboardName |-> Falsy,
     userId |-> Null, clientId |-> Null, stage |-> "permissions",
     pending |-> NoQuery, answer |-> NoAnswer,
     queried |-> 0, failed |-> FALSE, cacheRead |-> FALSE, onMiss |-> FALSE,
     dirty |-> FALSE, afterClear |-> FALSE, evicted |-> NoResult,
     peerResults |-> {},
     headers |-> NoHeaders, route |-> "none", target |-> Null, body |-> NoBody,
     reqUser |-> NoUser, handler |-> FALSE, scope |-> NoScope,
     props |-> NoProps, roles |-> {}, loop |-> {}, startedAt |-> 0]

\* what is recorded of a completed call
NoCall ==
    [op |-> "none", role |-> Falsy, dashboardName |-> Falsy,
     userId |-> Null, clientId |-> Null, result |-> NoResult,
     queried |-> 0, failed |-> FALSE, cacheRead |-> FALSE, onMiss |-> FALSE,
     dirty |-> FALSE, afterClear |-> FALSE, evicted |-> NoResult,
     expect |-> NoResult, peerResults |-> {}, cacheLeft |-> NoResult,
     headers |-> NoHeaders, route |-> "none", target |-> Null, body |-> NoBody,
     reqUser |-> NoUser, handler |-> FALSE, scope |-> NoScope,
     props |-> NoProps, roles |-> {}, startedAt |-> 0]

Observed(f, result) ==
    [op |-> f.op, role |-> f.role, dashboardName |-> f.dashboardName,
     userId |-> f.userId, clientId |-> f.clientId,
     result |-> result, queried |-> f.queried, failed |-> f.failed,
     cacheRead |-> f.cacheRead, onMiss |-> f.onMiss, dirty |-> f.dirty,
     afterClear |-> f.afterClear, evicted |-> f.evicted,
     expect |-> NoResult, peerResults |-> f.peerResults, cacheLeft |-> NoResult,
     headers |-> f.headers, route |-> f.route, target |-> f.target,
     body |-> f.body, reqUser |-> f.reqUser, handler |-> f.handler,
     scope |-> f.scope, props |-> f.props, roles |-> f.roles,
     startedAt |-> f.startedAt]

RECURSIVE SumOver(_, _)
SumOver(S, B) ==
    IF S = {} THEN 0
    ELSE LET x == CHOOSE y \in S : TRUE IN B[x] + SumOver(S \ {x}, B)

\* the bag of the images under the function F of the frames of B
BagMap(F, B) ==
    LET S == BagToSet(B)
    IN  [y \in { F[x] : x \in S } |-> SumOver({ x \in S : F[x] = y }, B)]

----------------------------------------------------------------------------
(* Storage: the tables as the setup script leaves them.                    *)

\* the role registry as the role management script seeds it
InitRoles ==
    [name \in RoleNames |-> [is_active |-> TRUE, is_system_role |-> TRUE]]

InitDashboards ==
    (1 :> [name |-> "iot_dashboard", is_active |-> TRUE]) @@
    (2 :> [name |-> "motor_dashboard", is_active |-> TRUE])

Row(role, did, a, e, d) ==
    [role_name |-> role, dashboard_id |-> did, can_access |-> a, can_edit |-> e,
     can_delete |-> d]

InitRolePermissions ==
    { Row("admin", 1, TRUE, TRUE, TRUE), Row("admin", 2, TRUE, TRUE, TRUE),
      Row("user", 1, TRUE, FALSE, FALSE), Row("viewer", 1, TRUE, FALSE, FALSE) }

\* the SELECT of getUserPermissions without its d.is_active = 1 condition
PermissionsQuery_inactiveToo(role) ==
    { [dashboard_id |-> rp.dashboard_id, can_access |-> rp.can_access,
       dashboard_name |-> dashboards[rp.dashboard_id].name] :
        rp \in { r \in role_permissions :
                    /\ r.dashboard_id \in DOMAIN dashboards
                    /\ r.role_name = role
                    /\ r.can_access } }

\* The SELECT of getUserPermissions: role_permissions JOIN dashboards
\* WHERE rp.role_name = @role AND d.is_active = 1 AND rp.can_access = 1
PermissionsQuery(role) ==
    { [dashboard_id |-> rp.dashboard_id, can_access |-> rp.can_access,
       dashboard_name |-> dashboards[rp.dashboard_id].name] :
        rp \in { r \in role_permissions :
                    /\ r.dashboard_id \in DOMAIN dashboards
                    /\ r.role_name = role
                    /\ dashboards[r.dashboard_id].is_active
                    /\ r.can_access } }

\* permissions.forEach(perm => permissionObj[perm.dashboard_name] = {...})
PermissionObj(rows) ==
    [n \in { r.dashboard_name : r \in rows } |->
        LET r == CHOOSE x \in rows : x.dashboard_name = n
        IN  [dashboard_id |-> r.dashboard_id, can_access |-> r.can_access]]

----------------------------------------------------------------------------
(* Text: role names and hierarchy paths as sequences of characters.        *)

RoleText ==
    [admin |-> <<"a", "d", "m", "i", "n">>,
     paddy_admin |-> <<"p", "a", "d", "d", "y", "_", "a", "d", "m", "i", "n">>,
     user |-> <<"u", "s", "e", "r">>,
     viewer |-> <<"v", "i", "e", "w", "e", "r">>]

\* String.prototype.includes
Includes(text, sub) ==
    \E i \in 1..(Len(text) - Len(sub) + 1) : SubSeq(text, i, i + Len(sub) - 1) = sub

DigitChars == <<"0", "1", "2", "3", "4", "5", "6", "7", "8", "9">>

\* the decimal text of a non-negative integer
RECURSIVE Dec(_)
Dec(n) ==
    IF n < 10 THEN <<DigitChars[n + 1]>>
    ELSE Dec(n \div 10) \o <<DigitChars[(n % 10) + 1]>>

\* text LIKE pattern, with the wildcards % and _
RECURSIVE Like(_, _)
Like(text, pattern) ==
    IF pattern = <<>> THEN text = <<>>
    ELSE IF Head(pattern) = "%"
         THEN Like(text, Tail(pattern)) \/ (text # <<>> /\ Like(Tail(text), pattern))
    ELSE /\ text # <<>>
         /\ Head(pattern) = "_" \/ Head(pattern) = Head(text)
         /\ Like(Tail(text), Tail(pattern))

\* hierarchy_path of a node: the ancestor id chain from the root to the node,
\* each id preceded by "/" and, in the enclosed style, the chain closed by "/"
PathStyles == {"leading", "enclosed"}

PathOf(style, parentPath, id) ==
    IF style = "leading" THEN parentPath \o <<"/">> \o Dec(id)
    ELSE (IF parentPath = <<>> THEN <<"/">> ELSE parentPath) \o Dec(id) \o <<"/">>

----------------------------------------------------------------------------
(* Storage: users and the client hierarchy.                                *)

User(userRoles, client_id, can_manage_hierarchy) ==
    [roles |-> userRoles, client_id |-> client_id,
     can_manage_hierarchy |-> can_manage_hierarchy, is_active |-> TRUE]

InitUsers ==
    (1 :> User("admin", Null, FALSE)) @@
    (2 :> User("admin", 6, FALSE)) @@
    (3 :> User("paddy_admin", 2, TRUE)) @@
    (4 :> User("user", 2, FALSE)) @@
    (5 :> User("viewer", Null, FALSE)) @@
    (6 :> User("paddy_admin", Null, TRUE)) @@
    (7 :> User("paddy_admin", 2, FALSE)) @@
    (8 :> User("user", 2, TRUE))

ClientNode(parent, path, active) ==
    [parent_client_id |-> parent, hierarchy_path |-> path, is_active |-> active]

\* the tree root(1) -> division(2) -> site(5), with the sibling site(6) under 1
InitClient(style) ==
    LET p1 == PathOf(style, <<>>, 1)
        p2 == PathOf(style, p1, 2)
    IN  (1 :> ClientNode(Null, p1, TRUE)) @@
        (2 :> ClientNode(1, p2, TRUE)) @@
        (5 :> ClientNode(2, PathOf(style, p2, 5), TRUE)) @@
        (6 :> ClientNode(1, PathOf(style, p1, 6), TRUE))

ClientRow(id) ==
    [client_id |-> id, parent_client_id |-> client[id].parent_client_id,
     hierarchy_path |-> client[id].hierarchy_path, is_active |-> client[id].is_active]

\* SELECT id, roles, client_id FROM users WHERE id = @userId
\* (canUserManageClient selects can_manage_hierarchy as well)
UserQuery(userId) ==
    { [id |-> u, roles |-> users[u].roles, client_id |-> users[u].client_id,
       can_manage_hierarchy |-> users[u].can_manage_hierarchy] :
        u \in { x \in DOMAIN users : x = userId } }

\* admin: SELECT ... FROM client ORDER BY hierarchy_path
AllClientsQuery ==
    { ClientRow(id) : id \in DOMAIN client }

\* branch admin: ... WHERE is_active = 1 AND (id = @clientId OR hierarchy_path
\* LIKE (SELECT hierarchy_path + '%' FROM client WHERE id = @clientId))
BranchClientsQuery(clientId) ==
    { ClientRow(id) : id \in { x \in DOMAIN client :
        /\ client[x].is_active
        /\ \/ x = clientId
           \/ /\ clientId \in DOMAIN client
              /\ Like(client[x].hierarchy_path,
                      client[clientId].hierarchy_path \o <<"%">>) } }

\* the own-client SELECT without its is_active = 1 condition
OwnClientQuery_inactiveToo(clientId) ==
    { ClientRow(id) : id \in { x \in DOMAIN client : x = clientId } }

\* regular user: ... WHERE id = @clientId AND is_active = 1
OwnClientQuery(clientId) ==
    { ClientRow(id) : id \in { x \in DOMAIN client :
        x = clientId /\ client[x].is_active } }

----------------------------------------------------------------------------
(* The permission cache.                                                   *)

\* const cacheKey = `permissions_${role}`
CacheKey(role) == <<"permissions_", role>>

Cached(role) == CacheKey(role) \in DOMAIN permissionCache

\* the cache check taking an entry of age cacheTimeout as fresh
CacheHit_inclusive(role) ==
    /\ Cached(role)
    /\ now - permissionCache[CacheKey(role)].timestamp <= cacheTimeout

\* cached && Date.now() - cached.timestamp < this.cacheTimeout
CacheHit(role) ==
    /\ Cached(role)
    /\ now - permissionCache[CacheKey(role)].timestamp < cacheTimeout

\* this.permissionCache.set(cacheKey, {permissions, timestamp: Date.now()})
CacheSet(cache, role, obj) ==
    [k \in DOMAIN cache \cup {CacheKey(role)} |->
        IF k = CacheKey(role) THEN [permissions |-> obj, timestamp |-> now]
        ELSE cache[k]]

\* a catch block that rethrows
getUserPermissions_rethrows == Rejected

\* the catch block of getUserPermissions: console.error(...); return {}
getUserPermissions_catch == MapResult(EmptyObject)

\* what getUserPermissions resolves to once its query has been answered
getUserPermissions_settle(answer) ==
    IF answer.kind = "rows" THEN MapResult(PermissionObj(answer.rows))
    ELSE getUserPermissions_catch

\* a catch block that caches the empty map it returns
getUserPermissions_store_always(cache, role, answer) ==
    IF answer.kind = "rows" THEN CacheSet(cache, role, PermissionObj(answer.rows))
    ELSE CacheSet(cache, role, EmptyObject)

\* what the cache holds once getUserPermissions has resumed: only the try
\* block stores
getUserPermissions_store(cache, role, answer) ==
    IF answer.kind = "rows" THEN CacheSet(cache, role, PermissionObj(answer.rows))
    ELSE cache

\* permissions[dashboardName]?.can_access === true
HasAccessEntry(permissions, dashboardName) ==
    /\ dashboardName \in DOMAIN permissions
    /\ permissions[dashboardName].can_access = TRUE

\* the result of hasPermission from what getUserPermissions resolved to
hasPermission_result(inner, dashboardName) ==
    IF inner.kind = "throws" THEN Rejected
    ELSE BoolResult(HasAccessEntry(inner.val, dashboardName))

\* for (const [dashboardName, permission] of Object.entries(permissions))
\*   if (permission.can_access) accessibleDashboards.push({name: ...})
getAccessibleDashboards_result(inner) ==
    IF inner.kind = "throws" THEN Rejected
    ELSE ListResult({ [name |-> n] :
            n \in { d \in DOMAIN inner.val : inner.val[d].can_access } })

\* the callers of hasPermission return what it resolved to
HasPermissionOps ==
    {"hasPermission", "canAccessIoTDashboard", "canAccessMotorDashboard"}

OpResult(op, inner, dashboardName) ==
    IF op \in HasPermissionOps THEN hasPermission_result(inner, dashboardName)
    ELSE IF op = "getAccessibleDashboards" THEN getAccessibleDashboards_result(inner)
    ELSE inner

CacheLeft(cache, role) ==
    IF CacheKey(role) \in DOMAIN cache
    THEN MapResult(cache[CacheKey(role)].permissions) ELSE NoResult

Init ==
    /\ roles = InitRoles
    /\ dashboards = InitDashboards
    /\ role_permissions = InitRolePermissions
    /\ users = InitUsers
    /\ client = <<>>
    /\ pathStyle = "unset"
    /\ permissionCache = <<>>
    /\ now = 0
    /\ dbUp = TRUE
    /\ calls = EmptyBag
    /\ returned = NoCall
    /\ clearedSinceWrite = {}
    /\ quietCleared = <<>>
    /\ firstOk = <<>>
    /\ ticks = 0
    /\ outages = 0

----------------------------------------------------------------------------
(* History bookkeeping shared by the actions.                              *)

IsReload(f, role) == f.onMiss /\ f.role = role

ReloadInFlight(role) == \E f \in BagToSet(calls) : IsReload(f, role)

\* a matrix write reaches every call that is in flight
MarkDirty(B) ==
    BagMap([g \in BagToSet(B) |-> [g EXCEPT !.dirty = TRUE]], B)

WindowOpen(role) ==
    /\ role \in DOMAIN firstOk
    /\ now < firstOk[role].t + cacheTimeout

\* the frame of a call that looks role up through getUserPermissions
LookupFrame(op, role, dashboardName, clientId) ==
    [NewFrame EXCEPT
        !.op = op, !.role = role, !.dashboardName = dashboardName,
        !.clientId = clientId,
        !.cacheRead = TRUE,
        !.afterClear = role \in clearedSinceWrite,
        !.evicted = IF role \in DOMAIN quietCleared
                    THEN MapResult(quietCleared[role]) ELSE NoResult]

\* a completed reload is seen by the reloads of the same role still in flight
TellPeers(B, f, result) ==
    BagMap([g \in BagToSet(B) |->
                IF IsReload(f, f.role) /\ IsReload(g, f.role)
                THEN [g EXCEPT !.peerResults = @ \cup {result}] ELSE g], B)

\* getUserPermissions up to its await: the cache check, then the query
getUserPermissions_begin(op, role, dashboardName, clientId) ==
    LET f == LookupFrame(op, role, dashboardName, clientId) IN
    /\ quietCleared' = [r \in DOMAIN quietCleared \ {role} |-> quietCleared[r]]
    /\ IF CacheHit(role)
       THEN /\ returned' =
                [Observed(f, OpResult(op,
                        MapResult(permissionCache[CacheKey(role)].permissions),
                        dashboardName))
                 EXCEPT !.expect = IF WindowOpen(role)
                                   THEN MapResult(firstOk[role].map) ELSE NoResult,
                        !.cacheLeft = CacheLeft(permissionCache, role)]
            /\ UNCHANGED calls
       ELSE /\ BagCardinality(calls) < MaxInFlight
            /\ calls' = calls (+) SetToBag({
                    [f EXCEPT !.onMiss = TRUE, !.queried = 1,
                              !.pending = [kind |-> "permissions", role |-> role]]})
            /\ returned' = NoCall

----------------------------------------------------------------------------
(* PermissionService.getUserPermissions(role)                              *)

getUserPermissions_Call(role) ==
    /\ IF ~Truthy(role)
       THEN /\ returned' = Observed([NewFrame EXCEPT !.op = "getUserPermissions",
                                                    !.role = role],
                                    MapResult(EmptyObject))
            /\ UNCHANGED <<calls, quietCleared>>
       ELSE getUserPermissions_begin("getUserPermissions", role, Falsy, Null)
    /\ UNCHANGED <<roles, dashboards, role_permissions, users, client, pathStyle,
                   permissionCache, now, dbUp, clearedSinceWrite, firstOk, ticks, outages>>

(* PermissionService.hasPermission(role, dashboardName)                    *)

\* hasPermission without its admin branch
IsAdminBypass_never(role) == FALSE

\* if (role === 'admin') return true
IsAdminBypass(role) == role = "admin"

hasPermission_Call(role, dashboardName) ==
    LET f == [NewFrame EXCEPT !.op = "hasPermission", !.role = role,
                              !.dashboardName = dashboardName]
    IN
    /\ IF ~Truthy(role) \/ ~Truthy(dashboardName)
       THEN /\ returned' = Observed(f, BoolResult(FALSE))
            /\ UNCHANGED <<calls, quietCleared>>
       ELSE IF IsAdminBypass(role)
       THEN /\ returned' = Observed(f, BoolResult(TRUE))
            /\ UNCHANGED <<calls, quietCleared>>
       ELSE getUserPermissions_begin("hasPermission", role, dashboardName, Null)
    /\ UNCHANGED <<roles, dashboards, role_permissions, users, client, pathStyle,
                   permissionCache, now, dbUp, clearedSinceWrite, firstOk, ticks, outages>>

\* what hasPermission(role, dashboardName) resolves to when it is called in
\* the current state and storage answers its query, if it sends one
hasPermission_value(role, dashboardName) ==
    IF ~Truthy(role) \/ ~Truthy(dashboardName) THEN FALSE
    ELSE IF IsAdminBypass(role) THEN TRUE
    ELSE IF CacheHit(role)
    THEN HasAccessEntry(permissionCache[CacheKey(role)].permissions, dashboardName)
    ELSE HasAccessEntry(PermissionObj(PermissionsQuery(role)), dashboardName)

(* PermissionService.canAccessIoTDashboard(role, clientId) and             *)
(* PermissionService.canAccessMotorDashboard(role, clientId)               *)

\* the legacy rule: a principal with a client sees the dashboard
canAccessDashboard_bypass_client(role, clientId) ==
    role = "admin" \/ TruthyId(clientId)

\* if (role === 'admin') return true
canAccessDashboard_bypass(role, clientId) ==
    role = "admin"

canAccessDashboard_Call(op, dashboardName, role, clientId) ==
    LET f == [NewFrame EXCEPT !.op = op, !.role = role,
                              !.dashboardName = dashboardName,
                              !.clientId = clientId]
    IN
    /\ IF canAccessDashboard_bypass(role, clientId)
       THEN /\ returned' = Observed(f, BoolResult(TRUE))
            /\ UNCHANGED <<calls, quietCleared>>
       ELSE IF ~Truthy(role) \/ ~Truthy(dashboardName)
       THEN /\ returned' = Observed(f, BoolResult(FALSE))
            /\ UNCHANGED <<calls, quietCleared>>
       ELSE IF IsAdminBypass(role)
       THEN /\ returned' = Observed(f, BoolResult(TRUE))
            /\ UNCHANGED <<calls, quietCleared>>
       ELSE getUserPermissions_begin(op, role, dashboardName, clientId)
    /\ UNCHANGED <<roles, dashboards, role_permissions, users, client, pathStyle,
                   permissionCache, now, dbUp, clearedSinceWrite, firstOk, ticks,
                   outages>>

canAccessIoTDashboard_Call(role, clientId) ==
    canAccessDashboard_Call("canAccessIoTDashboard", "iot_dashboard", role, clientId)

canAccessMotorDashboard_Call(role, clientId) ==
    canAccessDashboard_Call("canAccessMotorDashboard", "motor_dashboard", role,
                            clientId)

(* PermissionService.getAccessibleDashboards(role, clientId)               *)

getAccessibleDashboards_Call(role, clientId) ==
    LET f == [NewFrame EXCEPT !.op = "getAccessibleDashboards", !.role = role,
                              !.clientId = clientId]
    IN
    /\ IF ~Truthy(role)
       THEN /\ returned' = Observed(f, getAccessibleDashboards_result(
                                            MapResult(EmptyObject)))
            /\ UNCHANGED <<calls, quietCleared>>
       ELSE getUserPermissions_begin("getAccessibleDashboards", role, Falsy, clientId)
    /\ UNCHANGED <<roles, dashboards, role_permissions, users, client, pathStyle,
                   permissionCache, now, dbUp, clearedSinceWrite, firstOk, ticks,
                   outages>>

(* database.query: the storage answers the query a call awaits             *)

\* authenticateToken:
\* SELECT id, user_name, email, roles FROM users WHERE id = @userId
AuthUserQuery(userId) ==
    { [id |-> u, roles |-> users[u].roles] :
        u \in { x \in DOMAIN users : x = userId } }

\* GET /users: SELECT id, user_name as name, email, roles as role FROM users
ListUsersQuery ==
    { [id |-> u, role |-> users[u].roles] : u \in DOMAIN users }

\* PUT /users/:userId: UPDATE users SET roles = @role
\* OUTPUT INSERTED.id, INSERTED.roles as role WHERE id = @userId
UpdateUserQuery(userId, role) ==
    { [id |-> u, role |-> role] : u \in { x \in DOMAIN users : x = userId } }

\* DELETE /users/:userId: DELETE FROM users WHERE id = @userId, answered with
\* the rows affected
DeleteUserQuery(userId) ==
    { [id |-> u] : u \in { x \in DOMAIN users : x = userId } }

\* the table device, Device_ID -> client_id: devices of the nodes of the
\* tree, one of a client id without node and one without client
device ==
    [d \in 1..6 |-> [client_id |-> <<2, 5, 6, 20, 789, Null>>[d]]]

\* the listing's statement: the caller's predicate (one client, or none)
\* AND-ed with the scope
DevicesQuery(base, scope) ==
    { [id |-> d, client_id |-> device[d].client_id] :
        d \in { x \in DOMAIN device :
                    /\ ~TruthyId(base) \/ device[x].client_id = base
                    /\ scope.all \/ device[x].client_id \in scope.ids } }

WriteKinds == {"updateUser", "deleteUser"}

\* the table users after the statement q
WriteEffect(q) ==
    CASE q.kind = "updateUser" /\ q.userId \in DOMAIN users ->
            [users EXCEPT ![q.userId].roles = q.role]
      [] q.kind = "deleteUser" ->
            [u \in DOMAIN users \ {q.userId} |-> users[u]]
      [] OTHER -> users

RunQuery(q) ==
    CASE q.kind = "permissions" -> PermissionsQuery(q.role)
      [] q.kind = "devices" -> DevicesQuery(q.base, q.scope)
      [] q.kind = "authUser" -> AuthUserQuery(q.userId)
      [] q.kind = "listUsers" -> ListUsersQuery
      [] q.kind = "updateUser" -> UpdateUserQuery(q.userId, q.role)
      [] q.kind = "deleteUser" -> DeleteUserQuery(q.userId)
      [] q.kind = "user" -> UserQuery(q.userId)
      [] q.kind = "allClients" -> AllClientsQuery
      [] q.kind = "branchClients" -> BranchClientsQuery(q.clientId)
      [] q.kind = "ownClient" -> OwnClientQuery(q.clientId)

database_query(f) ==
    /\ f \in BagToSet(calls)
    /\ f.pc = "await"
    /\ LET others == calls (-) SetToBag({f})
           writes == dbUp /\ f.pending.kind \in WriteKinds
       IN calls' = (IF writes THEN MarkDirty(others) ELSE others) (+) SetToBag({
            [f EXCEPT !.pc = "resume",
                      !.pending = NoQuery,
                      !.failed = @ \/ ~dbUp,
                      !.answer = IF dbUp
                                 THEN [kind |-> "rows", rows |-> RunQuery(f.pending)]
                                 ELSE [kind |-> "error"]]})
    /\ users' = IF dbUp THEN WriteEffect(f.pending) ELSE users
    /\ returned' = NoCall
    /\ UNCHANGED <<roles, dashboards, role_permissions, client, pathStyle,
                   permissionCache, now, dbUp, clearedSinceWrite,
                   quietCleared, firstOk, ticks, outages>>

(* getUserPermissions after its await, for either caller of it             *)

getUserPermissions_Resume(f) ==
    LET inner == getUserPermissions_settle(f.answer)
        result == OpResult(f.op, inner, f.dashboardName)
        stored == getUserPermissions_store(permissionCache, f.role, f.answer)
    IN
    /\ f \in BagToSet(calls)
    /\ f.pc = "resume"
    /\ f.op \in HasPermissionOps \cup {"getUserPermissions", "getAccessibleDashboards"}
    /\ permissionCache' = stored
    /\ calls' = TellPeers(calls (-) SetToBag({f}), f, inner)
    /\ returned' = [Observed(f, result) EXCEPT !.cacheLeft = CacheLeft(stored, f.role)]
    /\ firstOk' = IF f.answer.kind = "rows" /\ ~WindowOpen(f.role)
                  THEN [r \in DOMAIN firstOk \cup {f.role} |->
                            IF r = f.role THEN [map |-> inner.val, t |-> now]
                            ELSE firstOk[r]]
                  ELSE firstOk
    /\ UNCHANGED <<roles, dashboards, role_permissions, users, client, pathStyle,
                   now, dbUp, clearedSinceWrite, quietCleared, ticks, outages>>

----------------------------------------------------------------------------
(* The client hierarchy resolver.                                          *)

Done(result) == [done |-> TRUE, result |-> result]

Await(query) == [done |-> FALSE, query |-> query]

\* accessibleClients.some(client => client.client_id === clientId)
SomeClient(list, clientId) ==
    BoolResult(\E row \in list.val : row.client_id = clientId)

\* what the caller of getAccessibleClients makes of the list
ClientOpResult(op, list, clientId) ==
    IF op = "getAccessibleClients" THEN list ELSE SomeClient(list, clientId)

\* getAccessibleClients giving every stored user the admin's list
getAccessibleClients_step_everyClient(f) ==
    IF f.answer.kind = "error" THEN Done(ListResult({}))
    ELSE IF f.stage = "clients" THEN Done(ListResult(f.answer.rows))
    ELSE IF f.answer.rows = {} THEN Done(ListResult({}))
    ELSE Await([kind |-> "allClients"])

\* getAccessibleClients once the query it awaits has been answered
getAccessibleClients_step(f) ==
    IF f.answer.kind = "error" THEN Done(ListResult({}))
    ELSE IF f.stage = "clients" THEN Done(ListResult(f.answer.rows))
    ELSE IF f.answer.rows = {} THEN Done(ListResult({}))
    ELSE LET userInfo == CHOOSE u \in f.answer.rows : TRUE IN
         IF userInfo.roles = "admin"
         THEN Await([kind |-> "allClients"])
         ELSE IF /\ Includes(RoleText[userInfo.roles], <<"_", "a", "d", "m", "i", "n">>)
                 /\ TruthyId(userInfo.client_id)
         THEN Await([kind |-> "branchClients", clientId |-> userInfo.client_id])
         ELSE IF TruthyId(userInfo.client_id)
         THEN Await([kind |-> "ownClient", clientId |-> userInfo.client_id])
         ELSE Done(ListResult({}))

\* canUserManageClient taking the can_manage_hierarchy flag as sufficient
canUserManageClient_step_flagOnly(f) ==
    IF f.answer.kind = "error" THEN Done(BoolResult(FALSE))
    ELSE IF f.answer.rows = {} THEN Done(BoolResult(FALSE))
    ELSE LET userInfo == CHOOSE u \in f.answer.rows : TRUE IN
         IF userInfo.roles = "admin" THEN Done(BoolResult(TRUE))
         ELSE Done(BoolResult(userInfo.can_manage_hierarchy))

\* canUserManageClient once its own user lookup has been answered
canUserManageClient_step(f) ==
    IF f.answer.kind = "error" THEN Done(BoolResult(FALSE))
    ELSE IF f.answer.rows = {} THEN Done(BoolResult(FALSE))
    ELSE LET userInfo == CHOOSE u \in f.answer.rows : TRUE IN
         IF userInfo.roles = "admin" THEN Done(BoolResult(TRUE))
         ELSE IF userInfo.can_manage_hierarchy /\ TruthyId(userInfo.client_id)
         THEN Await([kind |-> "user", userId |-> f.userId])
         ELSE Done(BoolResult(FALSE))

ClientFrame(op, userId, clientId, stage) ==
    [NewFrame EXCEPT !.op = op, !.userId = userId, !.clientId = clientId,
                     !.stage = stage]

\* a call that goes on to await the user lookup
AwaitUser(f) ==
    /\ calls' = calls (+) SetToBag({
            [f EXCEPT !.queried = 1,
                      !.pending = [kind |-> "user", userId |-> f.userId]]})
    /\ returned' = NoCall

ServiceUnchanged ==
    UNCHANGED <<roles, dashboards, role_permissions, users, client, pathStyle,
                permissionCache, now, dbUp, clearedSinceWrite, quietCleared,
                firstOk, ticks, outages>>

(* PermissionService.getAccessibleClients(userId)                          *)

getAccessibleClients_Call(userId) ==
    LET f == ClientFrame("getAccessibleClients", userId, Null, "user") IN
    /\ IF ~TruthyId(userId)
       THEN returned' = Observed(f, ListResult({})) /\ UNCHANGED calls
       ELSE AwaitUser(f)
    /\ ServiceUnchanged

(* PermissionService.canUserAccessClient(userId, clientId)                 *)

canUserAccessClient_Call(userId, clientId) ==
    LET f == ClientFrame("canUserAccessClient", userId, clientId, "user") IN
    /\ IF ~TruthyId(userId) \/ ~TruthyId(clientId)
       THEN returned' = Observed(f, BoolResult(FALSE)) /\ UNCHANGED calls
       ELSE AwaitUser(f)
    /\ ServiceUnchanged

\* what getAccessibleClients(userId) resolves to when it is called in the
\* current state and storage answers its queries
getAccessibleClients_value(userId) ==
    IF ~TruthyId(userId) THEN ListResult({})
    ELSE LET f == [ClientFrame("getAccessibleClients", userId, Null, "user")
                     EXCEPT !.answer = [kind |-> "rows", rows |-> UserQuery(userId)]]
             step == getAccessibleClients_step(f)
         IN IF step.done THEN step.result ELSE ListResult(RunQuery(step.query))

\* what canUserAccessClient(userId, clientId) resolves to in the same way
canUserAccessClient_value(userId, clientId) ==
    IF ~TruthyId(userId) \/ ~TruthyId(clientId) THEN BoolResult(FALSE)
    ELSE SomeClient(getAccessibleClients_value(userId), clientId)

(* PermissionService.canUserManageClient(userId, clientId)                 *)

canUserManageClient_Call(userId, clientId) ==
    LET f == ClientFrame("canUserManageClient", userId, clientId, "manage") IN
    /\ IF ~TruthyId(userId) \/ ~TruthyId(clientId)
       THEN returned' = Observed(f, BoolResult(FALSE)) /\ UNCHANGED calls
       ELSE AwaitUser(f)
    /\ ServiceUnchanged

\* a resumed call either settles or awaits its next query
Continue(f, step, result) ==
    IF step.done
    THEN /\ calls' = calls (-) SetToBag({f})
         /\ returned' = Observed(f, result)
    ELSE /\ calls' = (calls (-) SetToBag({f})) (+) SetToBag({
                [f EXCEPT !.pc = "await", !.answer = NoAnswer,
                          !.stage = IF step.query.kind = "user" THEN "user"
                                    ELSE "clients",
                          !.queried = @ + 1, !.pending = step.query]})
         /\ returned' = NoCall

(* getAccessibleClients after an await, for any of its callers             *)

ResolverOps == {"getAccessibleClients", "canUserAccessClient", "canUserManageClient"}

getAccessibleClients_Resume(f) ==
    LET step == getAccessibleClients_step(f) IN
    /\ f \in BagToSet(calls)
    /\ f.pc = "resume"
    /\ f.op \in ResolverOps
    /\ f.stage \in {"user", "clients"}
    /\ Continue(f, step, IF step.done
                         THEN ClientOpResult(f.op, step.result, f.clientId)
                         ELSE NoResult)
    /\ ServiceUnchanged

(* canUserManageClient after its user lookup                               *)

canUserManageClient_Resume(f) ==
    LET step == canUserManageClient_step(f) IN
    /\ f \in BagToSet(calls)
    /\ f.pc = "resume"
    /\ f.stage = "manage"
    /\ Continue(f, step, IF step.done THEN step.result ELSE NoResult)
    /\ ServiceUnchanged

(* A device listing under the data scope filter: the principal's clients  *)
(* are resolved, then the listing runs restricted to them; an admin's      *)
(* listing runs as the caller wrote it.                                    *)

listDevices_Call(userId, base) ==
    LET f == ClientFrame("listDevices", userId, base, "user") IN
    /\ IF ~TruthyId(userId)
       THEN returned' = Observed(f, Status(401)) /\ UNCHANGED calls
       ELSE AwaitUser(f)
    /\ ServiceUnchanged

\* the scope the filter applies for a principal with the resolved list
ScopeFilter(role, list) ==
    IF role = "admin" THEN [all |-> TRUE, ids |-> {}]
    ELSE [all |-> FALSE, ids |-> { row.client_id : row \in list.val }]

listDevices_Resume(f) ==
    LET step == getAccessibleClients_step(f)
        g == IF f.stage = "user" /\ f.answer.kind = "rows" /\ f.answer.rows # {}
             THEN [f EXCEPT !.role = (CHOOSE u \in f.answer.rows : TRUE).roles]
             ELSE f
        scope == ScopeFilter(g.role, step.result)
    IN
    /\ f \in BagToSet(calls)
    /\ f.pc = "resume"
    /\ f.op = "listDevices"
    /\ IF f.stage = "devices"
       THEN Continue(f, Done(NoResult),
                     IF f.answer.kind = "error" THEN Status(500)
                     ELSE ListResult(f.answer.rows))
       ELSE IF ~step.done
       THEN /\ calls' = (calls (-) SetToBag({f})) (+) SetToBag({
                    [g EXCEPT !.pc = "await", !.answer = NoAnswer,
                              !.stage = "clients", !.queried = @ + 1,
                              !.pending = step.query]})
            /\ returned' = NoCall
       ELSE /\ calls' = (calls (-) SetToBag({f})) (+) SetToBag({
                    [g EXCEPT !.pc = "await", !.answer = NoAnswer,
                              !.stage = "devices", !.queried = @ + 1,
                              !.scope = scope,
                              !.pending = [kind |-> "devices", base |-> f.clientId,
                                           scope |-> scope]]})
            /\ returned' = NoCall
    /\ ServiceUnchanged

(* PermissionService.clearCache(role = null)                               *)

\* clearCache forgetting to evict
clearCache_cache_keeps(role) == permissionCache

clearCache_cache(role) ==
    IF Truthy(role)
    THEN [k \in DOMAIN permissionCache \ {CacheKey(role)} |-> permissionCache[k]]
    ELSE <<>>

clearCache(role) ==
    LET evicted == IF Truthy(role) THEN {role} ELSE RoleNames
        quiet == { r \in evicted : CacheHit(r) /\ ~ReloadInFlight(r) }
    IN
    /\ permissionCache' = clearCache_cache(role)
    /\ clearedSinceWrite' = clearedSinceWrite \cup evicted
    /\ quietCleared' = [r \in (DOMAIN quietCleared \ evicted) \cup quiet |->
                            IF r \in quiet THEN permissionCache[CacheKey(r)].permissions
                            ELSE quietCleared[r]]
    /\ firstOk' = [r \in DOMAIN firstOk \ evicted |-> firstOk[r]]
    /\ returned' = NoCall
    /\ UNCHANGED <<roles, dashboards, role_permissions, users, client, pathStyle,
                   now, dbUp, calls, ticks, outages>>

(* PermissionService.refreshAllCaches()                                    *)

\* key.replace('permissions_', '')
RoleOfKey(key) == key[2]

\* Array.from(this.permissionCache.keys()).map(key => key.replace(...))
refreshAllCaches_roles(cache) == { RoleOfKey(k) : k \in DOMAIN cache }

\* one iteration of the loop, up to the await of getUserPermissions(role):
\* a hit resolves at once, a miss awaits storage
refreshAllCaches_iterate(f, cache, role) ==
    LET g == [f EXCEPT !.role = role, !.loop = @ \ {role}, !.onMiss = TRUE,
                       !.answer = NoAnswer]
        hit == /\ CacheKey(role) \in DOMAIN cache
               /\ now - cache[CacheKey(role)].timestamp < cacheTimeout
    IN IF hit THEN [g EXCEPT !.pc = "resume", !.onMiss = FALSE]
       ELSE [g EXCEPT !.pc = "await", !.queried = @ + 1,
                      !.pending = [kind |-> "permissions", role |-> role]]

\* refreshAllCaches up to its first await: the keys are read, the cache is
\* cleared and the first role is looked up
refreshAllCaches_Call ==
    LET f == [NewFrame EXCEPT !.op = "refreshAllCaches",
                              !.roles = refreshAllCaches_roles(permissionCache),
                              !.loop = refreshAllCaches_roles(permissionCache),
                              !.startedAt = now]
        quiet == { r \in RoleNames : CacheHit(r) /\ ~ReloadInFlight(r) }
    IN
    /\ permissionCache' = <<>>
    /\ clearedSinceWrite' = clearedSinceWrite \cup RoleNames
    /\ firstOk' = <<>>
    /\ IF f.loop = {}
       THEN /\ returned' = Observed(f, Undefined)
            /\ quietCleared' = [r \in quiet |-> permissionCache[CacheKey(r)].permissions]
            /\ UNCHANGED calls
       ELSE /\ BagCardinality(calls) < MaxInFlight
            /\ \E role \in f.loop :
                 /\ calls' = calls (+) SetToBag({refreshAllCaches_iterate(f, <<>>, role)})
                 /\ quietCleared' = [r \in quiet \ {role} |->
                                        permissionCache[CacheKey(r)].permissions]
            /\ returned' = NoCall
    /\ UNCHANGED <<roles, dashboards, role_permissions, users, client, pathStyle,
                   now, dbUp, ticks, outages>>

\* refreshAllCaches after an await: the lookup of f.role stores what it
\* read, then the loop goes to its next role or the function returns
refreshAllCaches_Resume(f) ==
    LET inner == getUserPermissions_settle(f.answer)
        stored == IF f.answer = NoAnswer THEN permissionCache
                  ELSE getUserPermissions_store(permissionCache, f.role, f.answer)
        others == TellPeers(calls (-) SetToBag({f}), f, inner)
    IN
    /\ f \in BagToSet(calls)
    /\ f.op = "refreshAllCaches"
    /\ f.pc = "resume"
    /\ permissionCache' = stored
    /\ firstOk' = IF f.answer.kind = "rows" /\ ~WindowOpen(f.role)
                  THEN [r \in DOMAIN firstOk \cup {f.role} |->
                            IF r = f.role THEN [map |-> inner.val, t |-> now]
                            ELSE firstOk[r]]
                  ELSE firstOk
    /\ IF f.loop = {}
       THEN /\ calls' = others
            /\ returned' = Observed(f, Undefined)
            /\ UNCHANGED quietCleared
       ELSE /\ \E role \in f.loop :
                 /\ calls' = others (+) SetToBag({refreshAllCaches_iterate(f, stored, role)})
                 /\ quietCleared' = [r \in DOMAIN quietCleared \ {role} |->
                                        quietCleared[r]]
            /\ returned' = NoCall
    /\ UNCHANGED <<roles, dashboards, role_permissions, users, client, pathStyle,
                   now, dbUp, clearedSinceWrite, ticks, outages>>

----------------------------------------------------------------------------
(* The environment: administrative writes, the clock, storage outages.     *)

\* an administrative upsert of one row of the permission matrix
SetPermission(role, did, a, e, d) ==
    /\ Row(role, did, a, e, d) \notin role_permissions
    /\ role_permissions' =
            { r \in role_permissions : ~(r.role_name = role /\ r.dashboard_id = did) }
            \cup {Row(role, did, a, e, d)}
    /\ calls' = MarkDirty(calls)
    /\ clearedSinceWrite' = {}
    /\ returned' = NoCall
    /\ UNCHANGED <<roles, dashboards, users, client, pathStyle, permissionCache, now,
                   dbUp, quietCleared, firstOk, ticks, outages>>

\* an administrative delete of one row of the permission matrix
DeletePermission(role, did) ==
    /\ \E r \in role_permissions : r.role_name = role /\ r.dashboard_id = did
    /\ role_permissions' =
            { r \in role_permissions : ~(r.role_name = role /\ r.dashboard_id = did) }
    /\ calls' = MarkDirty(calls)
    /\ clearedSinceWrite' = {}
    /\ returned' = NoCall
    /\ UNCHANGED <<roles, dashboards, users, client, pathStyle, permissionCache, now,
                   dbUp, quietCleared, firstOk, ticks, outages>>

\* an administrative (de)activation of a dashboard
SetDashboardActive(did, b) ==
    /\ dashboards[did].is_active # b
    /\ dashboards' = [dashboards EXCEPT ![did].is_active = b]
    /\ calls' = MarkDirty(calls)
    /\ clearedSinceWrite' = {}
    /\ returned' = NoCall
    /\ UNCHANGED <<roles, role_permissions, users, client, pathStyle, permissionCache,
                   now, dbUp, quietCleared, firstOk, ticks, outages>>

\* an administrative (de)activation of a role in the registry; the rows of
\* role_permissions for the role stay (the foreign key cascades on delete only)
SetRoleActive(name, b) ==
    /\ name \in DOMAIN roles
    /\ roles[name].is_active # b
    /\ roles' = [roles EXCEPT ![name].is_active = b]
    /\ calls' = MarkDirty(calls)
    /\ clearedSinceWrite' = {}
    /\ returned' = NoCall
    /\ UNCHANGED <<dashboards, role_permissions, users, client, pathStyle,
                   permissionCache, now, dbUp, quietCleared, firstOk, ticks,
                   outages>>

\* the hierarchy as onboarding leaves it, in one of the path styles
SetupClients(style) ==
    /\ pathStyle = "unset"
    /\ pathStyle' = style
    /\ client' = InitClient(style)
    /\ calls' = MarkDirty(calls)
    /\ returned' = NoCall
    /\ UNCHANGED <<roles, dashboards, role_permissions, users, permissionCache, now,
                   dbUp, clearedSinceWrite, quietCleared, firstOk, ticks, outages>>

\* onboarding of a client node under an existing parent
createClient(id, parent) ==
    /\ pathStyle \in PathStyles
    /\ id \notin DOMAIN client
    /\ parent \in DOMAIN client
    /\ client' = client @@
            (id :> ClientNode(parent,
                              PathOf(pathStyle, client[parent].hierarchy_path, id),
                              TRUE))
    /\ calls' = MarkDirty(calls)
    /\ returned' = NoCall
    /\ UNCHANGED <<roles, dashboards, role_permissions, users, pathStyle, permissionCache,
                   now, dbUp, clearedSinceWrite, quietCleared, firstOk, ticks, outages>>

\* soft (de)activation of a client node
SetClientActive(id, b) ==
    /\ id \in DOMAIN client
    /\ client[id].is_active # b
    /\ b \/ Cardinality({ x \in DOMAIN client : ~client[x].is_active }) < MaxInactive
    /\ client' = [client EXCEPT ![id].is_active = b]
    /\ calls' = MarkDirty(calls)
    /\ returned' = NoCall
    /\ UNCHANGED <<roles, dashboards, role_permissions, users, pathStyle, permissionCache,
                   now, dbUp, clearedSinceWrite, quietCleared, firstOk, ticks, outages>>

\* an administrative (de)activation of a user: UPDATE users SET is_active
SetUserActive(userId, b) ==
    /\ userId \in DOMAIN users
    /\ users[userId].is_active # b
    /\ users' = [users EXCEPT ![userId].is_active = b]
    /\ calls' = MarkDirty(calls)
    /\ returned' = NoCall
    /\ UNCHANGED <<roles, dashboards, role_permissions, client, pathStyle,
                   permissionCache, now, dbUp, clearedSinceWrite, quietCleared,
                   firstOk, ticks, outages>>

\* the nodes of the onboarded tree whose parent link has been rewritten
Moved(c) ==
    { x \in DOMAIN c \cap DOMAIN InitClient(pathStyle) :
        c[x].parent_client_id # InitClient(pathStyle)[x].parent_client_id }

\* a write to the parent link of one row of client, from outside the
\* service: UPDATE client SET parent_client_id = @parent WHERE id = @id.
\* hierarchy_path is a stored column and stays as it was
moveClient(id, parent) ==
    LET moved == [client EXCEPT ![id].parent_client_id = parent] IN
    /\ pathStyle \in PathStyles
    /\ id \in DOMAIN client
    /\ client[id].parent_client_id # parent
    /\ Cardinality(Moved(moved)) <= MaxMoved
    /\ client' = moved
    /\ calls' = MarkDirty(calls)
    /\ returned' = NoCall
    /\ UNCHANGED <<roles, dashboards, role_permissions, users, pathStyle, permissionCache,
                   now, dbUp, clearedSinceWrite, quietCleared, firstOk, ticks, outages>>

TickSteps == {cacheTimeout - 1, cacheTimeout}

Tick(step) ==
    /\ ticks < MaxTicks
    /\ now' = now + step
    /\ ticks' = ticks + 1
    /\ returned' = NoCall
    /\ UNCHANGED <<roles, dashboards, role_permissions, users, client, pathStyle,
                   permissionCache, dbUp, calls, clearedSinceWrite,
                   quietCleared, firstOk, outages>>

StorageFails ==
    /\ dbUp
    /\ outages < MaxOutages
    /\ outages' = outages + 1
    /\ dbUp' = FALSE
    /\ returned' = NoCall
    /\ UNCHANGED <<roles, dashboards, role_permissions, users, client, pathStyle,
                   permissionCache, now, calls, clearedSinceWrite,
                   quietCleared, firstOk, ticks>>

StorageRecovers ==
    /\ ~dbUp
    /\ dbUp' = TRUE
    /\ returned' = NoCall
    /\ UNCHANGED <<roles, dashboards, role_permissions, users, client, pathStyle,
                   permissionCache, now, calls, clearedSinceWrite,
                   quietCleared, firstOk, ticks, outages>>

----------------------------------------------------------------------------
(* middleware/auth.js and the router of routes/admin.js.                   *)

\* the tokens that requests carry: signed for user 1, 4 or 9, signed and
\* expired, or not a token of this server
TokenArgs == {"jwt1", "jwt4", "jwt9", "expired", "garbage"}

\* jwt.verify(token, process.env.JWT_SECRET): the decoded payload, or the
\* name of the error it throws
jwt_verify(token) ==
    CASE token = "jwt1" -> [ok |-> TRUE, userId |-> 1, name |-> Falsy]
      [] token = "jwt4" -> [ok |-> TRUE, userId |-> 4, name |-> Falsy]
      [] token = "jwt9" -> [ok |-> TRUE, userId |-> 9, name |-> Falsy]
      [] token = "expired" ->
            [ok |-> FALSE, userId |-> Null, name |-> "TokenExpiredError"]
      [] OTHER -> [ok |-> FALSE, userId |-> Null, name |-> "JsonWebTokenError"]

\* the words of headers['authorization']
HeaderArgs ==
    {NoHeaders, <<"Bearer">>} \cup { <<"Bearer", t>> : t \in TokenArgs }

\* authHeader && authHeader.split(' ')[1]
BearerToken(headers) ==
    IF Len(headers) >= 2 THEN headers[2] ELSE Falsy

\* the catch of authenticateToken
authenticateToken_catch(name) ==
    IF name \in {"JsonWebTokenError", "TokenExpiredError"}
    THEN Status(401)
    ELSE Status(500)

\* what authenticateToken puts in req.user
authenticateToken_user_seeded(row) ==
    [id |-> row.id, role |-> InitUsers[row.id].roles]

authenticateToken_user(row) ==
    [id |-> row.id, role |-> row.roles]

\* next()
CallNext == [kind |-> "next"]

\* requireRole(allowedRoles) applied to a request
requireRole(allowedRoles, reqUser) ==
    IF reqUser = NoUser THEN Status(401)
    ELSE IF reqUser.role \notin allowedRoles THEN Status(403)
    ELSE CallNext

requireAdmin_anyone(reqUser) == CallNext

requireAdmin(reqUser) == requireRole({"admin"}, reqUser)

requireUserOrAdmin(reqUser) == requireRole({"user", "admin"}, reqUser)

requireViewerOrAbove(reqUser) == requireRole({"viewer", "user", "admin"}, reqUser)

\* req.params.userId
TargetArgs == {1, 4}

\* req.body, of which the handlers read role
BodyArgs == {NoBody, [role |-> "admin"], [role |-> "viewer"], [role |-> "root"]}

\* the requests that clients send: a listing, updates and deletions
RequestArgs ==
    {[route |-> "GET /users", target |-> Null, body |-> NoBody]}
    \cup { [route |-> "PUT /users/:userId", target |-> t, body |-> b] :
                t \in TargetArgs, b \in BodyArgs }
    \cup { [route |-> "DELETE /users/:userId", target |-> t, body |-> NoBody] :
                t \in TargetArgs }

\* req.user.userId, a property that authenticateToken never sets
req_user_userId(reqUser) == Null

\* a handler of the admin router up to its first await
admin_handler(route, target, body, reqUser) ==
    CASE route = "GET /users" -> Await([kind |-> "listUsers"])
      [] route = "PUT /users/:userId" ->
            IF Truthy(body.role) /\ body.role \notin {"admin", "user", "viewer"}
            THEN Done(Status(400))
            ELSE IF ~Truthy(body.role) THEN Done(Status(400))
            ELSE Await([kind |-> "updateUser", userId |-> target,
                        role |-> body.role])
      [] route = "DELETE /users/:userId" ->
            IF target = req_user_userId(reqUser) THEN Done(Status(400))
            ELSE Await([kind |-> "deleteUser", userId |-> target])

\* a handler of the admin router once its statement has been answered
admin_handler_settle(route, answer) ==
    IF answer.kind = "error" THEN Status(500)
    ELSE IF route = "GET /users" THEN Status(200)
    ELSE IF answer.rows # {} THEN Status(200)
    ELSE Status(404)

(* a request to the admin router: authenticateToken up to its await        *)

Request(headers, route, target, body) ==
    LET f == [NewFrame EXCEPT !.op = "request", !.stage = "auth",
                              !.headers = headers, !.route = route,
                              !.target = target, !.body = body]
        token == BearerToken(headers)
        decoded == jwt_verify(token)
    IN
    /\ IF ~Truthy(token)
       THEN returned' = Observed(f, Status(401)) /\ UNCHANGED calls
       ELSE IF ~decoded.ok
       THEN /\ returned' = Observed(f, authenticateToken_catch(decoded.name))
            /\ UNCHANGED calls
       ELSE /\ calls' = calls (+) SetToBag({
                    [f EXCEPT !.userId = decoded.userId, !.queried = 1,
                              !.pending = [kind |-> "authUser",
                                           userId |-> decoded.userId]]})
            /\ returned' = NoCall
    /\ ServiceUnchanged

(* authenticateToken after its await, then requireAdmin and the handler up *)
(* to its await                                                            *)

authenticateToken_Resume(f) ==
    /\ f \in BagToSet(calls)
    /\ f.op = "request"
    /\ f.pc = "resume"
    /\ f.stage = "auth"
    /\ IF f.answer.kind = "error"
       THEN /\ calls' = calls (-) SetToBag({f})
            /\ returned' = Observed(f, authenticateToken_catch("RequestError"))
       ELSE IF f.answer.rows = {}
       THEN /\ calls' = calls (-) SetToBag({f})
            /\ returned' = Observed(f, Status(401))
       ELSE LET row == CHOOSE r \in f.answer.rows : TRUE
                g == [f EXCEPT !.reqUser = authenticateToken_user(row)]
                guard == requireAdmin(g.reqUser)
                h == [g EXCEPT !.handler = TRUE]
                step == admin_handler(h.route, h.target, h.body, h.reqUser)
            IN IF guard # CallNext
               THEN /\ calls' = calls (-) SetToBag({f})
                    /\ returned' = Observed(g, guard)
               ELSE IF step.done
               THEN /\ calls' = calls (-) SetToBag({f})
                    /\ returned' = Observed(h, step.result)
               ELSE /\ calls' = (calls (-) SetToBag({f})) (+) SetToBag({
                            [h EXCEPT !.pc = "await", !.answer = NoAnswer,
                                      !.stage = "handler", !.queried = @ + 1,
                                      !.pending = step.query]})
                    /\ returned' = NoCall
    /\ ServiceUnchanged

(* a handler of the admin router after its await                           *)

admin_handler_Resume(f) ==
    /\ f \in BagToSet(calls)
    /\ f.op = "request"
    /\ f.pc = "resume"
    /\ f.stage = "handler"
    /\ calls' = calls (-) SetToBag({f})
    /\ returned' = Observed(f, admin_handler_settle(f.route, f.answer))
    /\ ServiceUnchanged

\* an administrative reassignment of a principal to another client node
SetUserClient(userId, clientId) ==
    /\ userId \in DOMAIN users
    /\ users[userId].client_id # clientId
    /\ users' = [users EXCEPT ![userId].client_id = clientId]
    /\ calls' = MarkDirty(calls)
    /\ returned' = NoCall
    /\ UNCHANGED <<roles, dashboards, role_permissions, client, pathStyle,
                   permissionCache, now, dbUp, clearedSinceWrite, quietCleared,
                   firstOk, ticks, outages>>

----------------------------------------------------------------------------
(* ProtectedRoute.tsx and the role guards of middleware/auth.js.           *)

\* ROLE_HIERARCHY / roleHierarchy as the permission system's change notes
\* give it for both sides
ROLE_HIERARCHY ==
    [viewer |-> 1, dashboard_viewer |-> 2, user |-> 3, admin |-> 4]

\* const roleHierarchy = { 'viewer': 1, 'user': 2, 'admin': 3 }
roleHierarchy ==
    [viewer |-> 1, user |-> 2, admin |-> 3]

\* roleHierarchy[role] || 0
RoleLevel(hierarchy, role) ==
    IF role \in DOMAIN hierarchy THEN hierarchy[role] ELSE 0

\* the roles of users and a role name that no hierarchy holds
UserRoleArgs == {"viewer", "dashboard_viewer", "user", "admin", "guest"}

\* requiredRole?: 'admin' | 'user' | 'viewer'
RequiredRoleArgs == {Falsy, "viewer", "user", "admin"}

\* user of useAuth(): null, or an object whose role may be missing
AuthUserArgs ==
    {[present |-> FALSE, role |-> Falsy]}
    \cup { [present |-> TRUE, role |-> role] : role \in UserRoleArgs \cup {Falsy} }

\* what ProtectedRoute returns
ProtectedRoute(props) ==
    IF props.isLoading THEN "loading"
    ELSE IF ~props.isAuthenticated THEN "login"
    ELSE IF /\ Truthy(props.requiredRole)
            /\ props.user.present
            /\ RoleLevel(roleHierarchy, props.user.role)
                    < RoleLevel(roleHierarchy, props.requiredRole)
    THEN "denied"
    ELSE "children"

ProtectedRoute_render(props) ==
    /\ returned' = Observed([NewFrame EXCEPT !.op = "ProtectedRoute",
                                             !.props = props],
                            [kind |-> "render", val |-> ProtectedRoute(props)])
    /\ UNCHANGED calls
    /\ ServiceUnchanged

\* the exported guards by name
GuardNames == {"requireViewerOrAbove", "requireUserOrAdmin", "requireAdmin"}

Guard(name, reqUser) ==
    CASE name = "requireViewerOrAbove" -> requireViewerOrAbove(reqUser)
      [] name = "requireUserOrAdmin" -> requireUserOrAdmin(reqUser)
      [] name = "requireAdmin" -> requireAdmin(reqUser)

\* a request that reaches a guard with req.user as authenticateToken left it
Guard_apply(name, reqUser) ==
    /\ returned' = Observed([NewFrame EXCEPT !.op = name, !.reqUser = reqUser],
                            Guard(name, reqUser))
    /\ UNCHANGED calls
    /\ ServiceUnchanged

----------------------------------------------------------------------------
(* UnifiedDashboard.tsx: the permission check of the dashboard page.       *)

\* useState(false) for canAccessIoT, canAccessMotor and shouldShowTabs,
\* useState(true) for permissionsLoading; iotFetched tells whether
\* fetchIoTData goes on to call the device and overview APIs
ComponentState(iot, motor, tabs, loading) ==
    [kind |-> "state", canAccessIoT |-> iot, canAccessMotor |-> motor,
     shouldShowTabs |-> tabs, permissionsLoading |-> loading,
     iotFetched |-> iot]

\* what a call of FrontendPermissionService settles to
PromiseArgs == {BoolResult(TRUE), BoolResult(FALSE), Rejected}

\* the catch of checkPermissions
checkPermissions_catch(role) ==
    ComponentState(TRUE,
                   role = "admin" \/ role = "dashboard_viewer",
                   role = "admin" \/ role = "dashboard_viewer",
                   FALSE)

\* checkPermissions once Promise.all has settled
checkPermissions_settle(role, answer) ==
    IF Rejected \in {answer.iot, answer.motor, answer.tabs}
    THEN checkPermissions_catch(role)
    ELSE ComponentState(answer.iot.val, answer.motor.val, answer.tabs.val, FALSE)

\* checkPermissions up to its await
checkPermissions_Call(role) ==
    LET f == [NewFrame EXCEPT !.op = "checkPermissions", !.role = role,
                              !.stage = "promises"]
    IN
    /\ IF ~Truthy(role)
       THEN /\ returned' = Observed(f, ComponentState(FALSE, FALSE, FALSE, FALSE))
            /\ UNCHANGED calls
       ELSE /\ calls' = calls (+) SetToBag({f})
            /\ returned' = NoCall
    /\ ServiceUnchanged

\* the three calls of FrontendPermissionService settle
FrontendPermissionService_settle(f, iot, motor, tabs) ==
    /\ f \in BagToSet(calls)
    /\ f.op = "checkPermissions"
    /\ f.pc = "await"
    /\ calls' = (calls (-) SetToBag({f})) (+) SetToBag({
            [f EXCEPT !.pc = "resume",
                      !.failed = Rejected \in {iot, motor, tabs},
                      !.answer = [kind |-> "promises", iot |-> iot,
                                  motor |-> motor, tabs |-> tabs]]})
    /\ returned' = NoCall
    /\ ServiceUnchanged

checkPermissions_Resume(f) ==
    /\ f \in BagToSet(calls)
    /\ f.op = "checkPermissions"
    /\ f.pc = "resume"
    /\ calls' = calls (-) SetToBag({f})
    /\ returned' = Observed(f, checkPermissions_settle(f.role, f.answer))
    /\ ServiceUnchanged

----------------------------------------------------------------------------
(* The permission cache under concurrent reloads, administrative writes    *)
(* with invalidation, and the clock.                                       *)

Next ==
    \/ getUserPermissions_Call("viewer")
    \/ \E f \in BagToSet(calls) : database_query(f)
    \/ \E f \in BagToSet(calls) : getUserPermissions_Resume(f)
    \/ \E role \in {Falsy, "viewer"} : clearCache(role)
    \/ SetPermission("viewer", 1, TRUE, FALSE, FALSE)
    \/ DeletePermission("viewer", 1)
    \/ \E step \in TickSteps : Tick(step)

Spec == Init /\ [][Next]_vars

----------------------------------------------------------------------------
(* Dashboard decisions over an edited matrix, with storage outages.        *)

NextDecide ==
    \/ /\ calls = EmptyBag
       /\ \E role \in RoleArgs, dashboardName \in DashboardArgs :
            hasPermission_Call(role, dashboardName)
    \/ \E f \in BagToSet(calls) : database_query(f)
    \/ \E f \in BagToSet(calls) : getUserPermissions_Resume(f)
    \/ clearCache(Falsy)
    \/ \E a \in BOOLEAN : SetPermission("viewer", 2, a, ~a, ~a)
    \/ \E did \in DashboardIds : DeletePermission("viewer", did)
    \/ \E did \in DashboardIds : DeletePermission("admin", did)
    \/ \E b \in BOOLEAN : SetDashboardActive(2, b)
    \/ StorageFails
    \/ StorageRecovers

SpecDecide == Init /\ [][NextDecide]_vars

----------------------------------------------------------------------------
(* The hierarchy resolver over a growing tree with deactivations.          *)

NextClients ==
    \/ \E style \in PathStyles : SetupClients(style)
    \/ /\ calls = EmptyBag
       /\ \E userId \in UserArgs : getAccessibleClients_Call(userId)
    \/ \E f \in BagToSet(calls) : database_query(f)
    \/ \E f \in BagToSet(calls) : getAccessibleClients_Resume(f)
    \/ \E id \in NewClientIds : \E parent \in DOMAIN client : createClient(id, parent)
    \/ \E id \in DOMAIN client : \E b \in BOOLEAN : SetClientActive(id, b)

SpecClients == Init /\ [][NextClients]_vars

----------------------------------------------------------------------------
(* The five decision functions, one call at a time, with storage outages.  *)

NextFailure ==
    \/ \E style \in PathStyles : SetupClients(style)
    \/ /\ calls = EmptyBag
       /\ \/ \E role \in {Falsy, "viewer"} : getUserPermissions_Call(role)
          \/ \E role \in RoleArgs, dashboardName \in DashboardArgs :
                hasPermission_Call(role, dashboardName)
          \/ \E userId \in UserArgs : getAccessibleClients_Call(userId)
          \/ \E userId \in UserArgs, clientId \in ClientArgs :
                canUserAccessClient_Call(userId, clientId)
          \/ \E userId \in UserArgs, clientId \in ClientArgs :
                canUserManageClient_Call(userId, clientId)
    \/ \E f \in BagToSet(calls) : database_query(f)
    \/ \E f \in BagToSet(calls) : getUserPermissions_Resume(f)
    \/ \E f \in BagToSet(calls) : getAccessibleClients_Resume(f)
    \/ \E f \in BagToSet(calls) : canUserManageClient_Resume(f)
    \/ clearCache(Falsy)
    \/ StorageFails
    \/ StorageRecovers

SpecFailure == Init /\ [][NextFailure]_vars

----------------------------------------------------------------------------
(* Dashboard decisions, one call at a time, over a registry whose roles    *)
(* are deactivated and reactivated.                                        *)

NextRoles ==
    \/ /\ calls = EmptyBag
       /\ \/ \E role \in {"user", "viewer"} : getUserPermissions_Call(role)
          \/ \E role \in RoleArgs, dashboardName \in DashboardArgs :
                hasPermission_Call(role, dashboardName)
    \/ \E f \in BagToSet(calls) : database_query(f)
    \/ \E f \in BagToSet(calls) : getUserPermissions_Resume(f)
    \/ clearCache(Falsy)
    \/ \E name \in {"user", "viewer"}, b \in BOOLEAN : SetRoleActive(name, b)
    \/ \E did \in DashboardIds : DeletePermission("viewer", did)

SpecRoles == Init /\ [][NextRoles]_vars

----------------------------------------------------------------------------
(* Requests to the admin router, one at a time, interleaved with calls of  *)
(* the hierarchy resolver, while principals are edited.                    *)

Principals == {1, 4, 9}

NextRequests ==
    \/ \E style \in PathStyles : SetupClients(style)
    \/ /\ calls = EmptyBag
       /\ \/ \E headers \in HeaderArgs, r \in RequestArgs :
                Request(headers, r.route, r.target, r.body)
          \/ \E userId \in Principals : getAccessibleClients_Call(userId)
    \/ \E f \in BagToSet(calls) : database_query(f)
    \/ \E f \in BagToSet(calls) : authenticateToken_Resume(f)
    \/ \E f \in BagToSet(calls) : admin_handler_Resume(f)
    \/ \E f \in BagToSet(calls) : getAccessibleClients_Resume(f)
    \/ \E clientId \in ClientArgs : SetUserClient(4, clientId)
    \/ StorageFails
    \/ StorageRecovers

SpecRequests == Init /\ [][NextRequests]_vars

----------------------------------------------------------------------------
(* The dashboard decisions of principals of several clients, one call at a *)
(* time, over an edited matrix with outages.                               *)

NextDashboards ==
    \/ /\ calls = EmptyBag
       /\ \E role \in RoleArgs, clientId \in ClientArgs :
            \/ canAccessIoTDashboard_Call(role, clientId)
            \/ canAccessMotorDashboard_Call(role, clientId)
            \/ getAccessibleDashboards_Call(role, clientId)
    \/ \E f \in BagToSet(calls) : database_query(f)
    \/ \E f \in BagToSet(calls) : getUserPermissions_Resume(f)
    \/ clearCache(Falsy)
    \/ \E a \in BOOLEAN : SetPermission("viewer", 2, a, ~a, ~a)
    \/ \E did \in DashboardIds : DeletePermission("admin", did)
    \/ StorageFails
    \/ StorageRecovers

SpecDashboards == Init /\ [][NextDashboards]_vars

----------------------------------------------------------------------------
(* Device listings of principals, one at a time, with outages, while the   *)
(* tree grows, nodes are deactivated and a principal is reassigned.        *)

\* the principals that list devices: none, an admin, a branch admin, a user
\* and one without a row
ListingArgs == {Null, 1, 3, 4, 9}

NextDevices ==
    \/ \E style \in PathStyles : SetupClients(style)
    \/ /\ calls = EmptyBag
       /\ \E userId \in ListingArgs, base \in ClientArgs :
            listDevices_Call(userId, base)
    \/ \E f \in BagToSet(calls) : database_query(f)
    \/ \E f \in BagToSet(calls) : listDevices_Resume(f)
    \/ \E id \in NewClientIds, parent \in {1, 2} : createClient(id, parent)
    \/ \E id \in {2, 5}, b \in BOOLEAN : SetClientActive(id, b)
    \/ \E clientId \in ClientArgs : SetUserClient(4, clientId)
    \/ StorageFails
    \/ StorageRecovers

SpecDevices == Init /\ [][NextDevices]_vars

----------------------------------------------------------------------------
(* Role checks of the frontend routes and of the backend guards, for every *)
(* role and every required role.                                           *)

NextGuards ==
    \/ \E requiredRole \in RequiredRoleArgs, isLoading \in BOOLEAN,
          isAuthenticated \in BOOLEAN, user \in AuthUserArgs :
            ProtectedRoute_render([requiredRole |-> requiredRole,
                                   isLoading |-> isLoading,
                                   isAuthenticated |-> isAuthenticated,
                                   user |-> user])
    \/ \E name \in GuardNames, role \in UserRoleArgs :
            Guard_apply(name, [id |-> 1, role |-> role])
    \/ \E name \in GuardNames : Guard_apply(name, NoUser)

SpecGuards == Init /\ [][NextGuards]_vars

----------------------------------------------------------------------------
(* The dashboard page checking its permissions, for every role and every   *)
(* outcome of the permission calls.                                        *)

NextFrontend ==
    \/ /\ calls = EmptyBag
       /\ \E role \in UserRoleArgs \cup {Falsy} : checkPermissions_Call(role)
    \/ \E f \in BagToSet(calls) : \E iot \in PromiseArgs, motor \in PromiseArgs,
            tabs \in PromiseArgs : FrontendPermissionService_settle(f, iot, motor, tabs)
    \/ \E f \in BagToSet(calls) : checkPermissions_Resume(f)

SpecFrontend == Init /\ [][NextFrontend]_vars

----------------------------------------------------------------------------
(* Updates and deletions of the admins' rows through the admin router, one *)
(* request at a time.                                                      *)

\* the stored admins, whose rows the requests name
AdminIds == {1, 2}

\* role updates and deletions of the admins' rows
AdminEditArgs ==
    { [route |-> "PUT /users/:userId", target |-> t, body |-> [role |-> r]] :
            t \in AdminIds, r \in {"admin", "viewer"} }
    \cup { [route |-> "DELETE /users/:userId", target |-> t, body |-> NoBody] :
            t \in AdminIds }

NextAdmins ==
    \/ /\ calls = EmptyBag
       /\ \E token \in {"jwt1", "jwt4"}, r \in AdminEditArgs :
            Request(<<"Bearer", token>>, r.route, r.target, r.body)
    \/ \E f \in BagToSet(calls) : database_query(f)
    \/ \E f \in BagToSet(calls) : authenticateToken_Resume(f)
    \/ \E f \in BagToSet(calls) : admin_handler_Resume(f)

SpecAdmins == Init /\ [][NextAdmins]_vars

----------------------------------------------------------------------------
(* Lookups and cache refreshes, one call at a time, over an edited matrix  *)
(* with a clock and storage outages.                                       *)

NextRefresh ==
    \/ /\ calls = EmptyBag
       /\ \/ \E role \in {"admin", "viewer"} : getUserPermissions_Call(role)
          \/ refreshAllCaches_Call
    \/ \E f \in BagToSet(calls) : database_query(f)
    \/ \E f \in BagToSet(calls) : getUserPermissions_Resume(f)
    \/ \E f \in BagToSet(calls) : refreshAllCaches_Resume(f)
    \/ SetPermission("viewer", 1, TRUE, FALSE, FALSE)
    \/ DeletePermission("viewer", 1)
    \/ \E step \in TickSteps : Tick(step)
    \/ StorageFails
    \/ StorageRecovers

SpecRefresh == Init /\ [][NextRefresh]_vars

----------------------------------------------------------------------------
(* The resolver, one call at a time, over a hierarchy whose parent links   *)
(* are rewritten.                                                          *)

NextCycles ==
    \/ \E style \in PathStyles : SetupClients(style)
    \/ /\ calls = EmptyBag
       /\ \E userId \in UserArgs : getAccessibleClients_Call(userId)
    \/ \E f \in BagToSet(calls) : database_query(f)
    \/ \E f \in BagToSet(calls) : getAccessibleClients_Resume(f)
    \/ \E id \in DOMAIN client : \E parent \in DOMAIN client \cup {Null} :
            moveClient(id, parent)

SpecCycles == Init /\ [][NextCycles]_vars

----------------------------------------------------------------------------
(* Access and management decisions about clients, one call at a time,      *)
(* over a hierarchy whose nodes are deactivated.                           *)

NextManage ==
    \/ \E style \in PathStyles : SetupClients(style)
    \/ /\ calls = EmptyBag
       /\ \E userId \in UserArgs, clientId \in ManagedClientArgs :
            \/ canUserAccessClient_Call(userId, clientId)
            \/ canUserManageClient_Call(userId, clientId)
    \/ \E f \in BagToSet(calls) : database_query(f)
    \/ \E f \in BagToSet(calls) : getAccessibleClients_Resume(f)
    \/ \E f \in BagToSet(calls) : canUserManageClient_Resume(f)
    \/ \E id \in DOMAIN client : \E b \in BOOLEAN : SetClientActive(id, b)

SpecManage == Init /\ [][NextManage]_vars

----------------------------------------------------------------------------
(* Requests through authenticateToken, one at a time, while users are      *)
(* deactivated and storage fails.                                          *)

NextAuth ==
    \/ /\ calls = EmptyBag
       /\ \E headers \in HeaderArgs : Request(headers, "GET /users", Null, NoBody)
    \/ \E f \in BagToSet(calls) : database_query(f)
    \/ \E f \in BagToSet(calls) : authenticateToken_Resume(f)
    \/ \E f \in BagToSet(calls) : admin_handler_Resume(f)
    \/ \E userId \in {1, 4}, b \in BOOLEAN : SetUserActive(userId, b)
    \/ StorageFails
    \/ StorageRecovers

SpecAuth == Init /\ [][NextAuth]_vars

----------------------------------------------------------------------------
(* Claims.                                                                 *)

\* the value by which an operation denies
Denial(op) ==
    CASE op = "getUserPermissions" -> MapResult(EmptyObject)
      [] op = "getAccessibleClients" -> ListResult({})
      [] OTHER -> BoolResult(FALSE)

\* C1: a call of getUserPermissions, hasPermission, getAccessibleClients,
\* canUserAccessClient or canUserManageClient in which a storage read failed
\* does not throw and resolves to the denying value: false, the empty object
\* or the empty list.
C1_FailClosed ==
    returned.failed => returned.result = Denial(returned.op)

\* the case of C1: canUserManageClient of a hierarchy manager whose own
\* lookup succeeded and whose nested getAccessibleClients read failed
C1_Witness ==
    /\ returned.op = "canUserManageClient"
    /\ returned.userId = 3
    /\ returned.clientId = 2
    /\ returned.failed
    /\ returned.queried >= 2
    /\ 2 \in DOMAIN client
    /\ returned.result = BoolResult(FALSE)

\* the matrix holds an entry (role, name) with can_access set, for an active
\* dashboard called name
MatrixGrants(role, name) ==
    \E rp \in role_permissions : \E did \in DOMAIN dashboards :
        /\ rp.role_name = role
        /\ rp.dashboard_id = did
        /\ rp.can_access
        /\ dashboards[did].name = name
        /\ dashboards[did].is_active

\* C2: for a non-admin role R and a dashboard name D, hasPermission(R, D)
\* evaluated on a freshly loaded map is true exactly when the matrix holds
\* an entry (R, D) with can_access set for an active dashboard D.
C2_FreshDecisionIsMatrixEntry ==
    (/\ returned.op = "hasPermission"
     /\ returned.role # "admin"
     /\ returned.onMiss
     /\ ~returned.failed
     /\ ~returned.dirty)
        => returned.result =
                BoolResult(MatrixGrants(returned.role, returned.dashboardName))

\* the case of C2: an entry with can_access = 0 and can_edit = can_delete = 1
\* is a deny, while the same role is granted the other dashboard
C2_Witness ==
    /\ returned.op = "hasPermission"
    /\ returned.role = "viewer"
    /\ returned.dashboardName = "motor_dashboard"
    /\ returned.onMiss
    /\ ~returned.failed
    /\ ~returned.dirty
    /\ Row("viewer", 2, FALSE, TRUE, TRUE) \in role_permissions
    /\ Row("viewer", 1, TRUE, FALSE, FALSE) \in role_permissions
    /\ dashboards[2].is_active
    /\ returned.result = BoolResult(FALSE)

\* C3 as stated: hasPermission('admin', D) returns true for every dashboard
\* argument D, whatever the matrix, the cache and the storage are, and reads
\* neither the cache nor storage.
C3_AdminAlwaysTrue ==
    (returned.op = "hasPermission" /\ returned.role = "admin")
        => /\ returned.result = BoolResult(TRUE)
           /\ returned.queried = 0
           /\ ~returned.cacheRead

\* C3 as amended: hasPermission('admin', D) returns true for every non-empty
\* dashboard argument D, whatever the matrix, the cache and the storage are,
\* and reads neither the cache nor storage.
C3_AdminTrueForNamedDashboard ==
    (/\ returned.op = "hasPermission"
     /\ returned.role = "admin"
     /\ Truthy(returned.dashboardName))
        => /\ returned.result = BoolResult(TRUE)
           /\ returned.queried = 0
           /\ ~returned.cacheRead

\* the case of C3: admin is granted a dashboard while storage is down and
\* the matrix holds no admin entry
C3_Witness ==
    /\ returned.op = "hasPermission"
    /\ returned.role = "admin"
    /\ returned.dashboardName = "motor_dashboard"
    /\ ~dbUp
    /\ \A rp \in role_permissions : rp.role_name # "admin"
    /\ returned.result = BoolResult(TRUE)

\* what a storage read of role's permissions would build in the current state
StoredPermissions(role) == MapResult(PermissionObj(PermissionsQuery(role)))

\* C4: a getUserPermissions(R) call issued after clearCache(R) returned, the
\* clearCache itself coming after the last matrix write, returns the
\* permissions the matrix holds (no write reached the call while it ran).
C4_IssuedAfterClearSeesWrite ==
    (/\ returned.op = "getUserPermissions"
     /\ returned.afterClear
     /\ ~returned.failed
     /\ ~returned.dirty)
        => returned.result = StoredPermissions(returned.role)

\* C5: the first getUserPermissions(R) after clearCache evicted a live entry
\* of R with no reload of R in flight reads storage once and returns the
\* matrix state of that moment, not the evicted map.
C5_SequentialInvalidation ==
    (/\ returned.op = "getUserPermissions"
     /\ returned.evicted.kind = "map"
     /\ ~returned.failed
     /\ ~returned.dirty)
        => /\ returned.queried = 1
           /\ returned.result = StoredPermissions(returned.role)

\* the case of C5: the evicted map was the pre-write one, the call read
\* storage and returned a different, current map
C5_Witness ==
    /\ returned.op = "getUserPermissions"
    /\ returned.evicted.kind = "map"
    /\ returned.afterClear
    /\ ~returned.dirty
    /\ returned.queried = 1
    /\ returned.result # returned.evicted
    /\ returned.result = StoredPermissions(returned.role)

\* C6: a getUserPermissions(R) call made less than cacheTimeout after a
\* successful reload of R, with no clearCache in between, returns the map
\* that reload returned and reads no storage.
C6_HitReturnsIdenticalMap ==
    (returned.op = "getUserPermissions" /\ returned.expect.kind = "map")
        => /\ returned.result = returned.expect
           /\ returned.queried = 0

\* C7: a getUserPermissions(R) reload that ran concurrently with other
\* reloads of R returns the map each of them returned, and the cache entry
\* of R it leaves is that map.
C7_ConcurrentReloadsAgree ==
    (/\ returned.op = "getUserPermissions"
     /\ returned.onMiss
     /\ ~returned.failed)
        => /\ \A r \in returned.peerResults : r = returned.result
           /\ returned.cacheLeft = returned.result

RECURSIVE AncestorsOf(_)
\* the ancestors of a node, by its parent links
AncestorsOf(id) ==
    IF id \notin DOMAIN client \/ client[id].parent_client_id = Null THEN {}
    ELSE {client[id].parent_client_id} \cup AncestorsOf(client[id].parent_client_id)

\* the active nodes of the closed subtree rooted at C
ActiveSubtree(C) ==
    { x \in DOMAIN client : client[x].is_active /\ (x = C \/ C \in AncestorsOf(x)) }

ActiveClients == { x \in DOMAIN client : client[x].is_active }

ResultIds == { row.client_id : row \in returned.result.val }

\* a completed getAccessibleClients of a stored user, no read of which failed
\* and which no hierarchy write reached
Resolved ==
    /\ returned.op = "getAccessibleClients"
    /\ returned.userId \in DOMAIN users
    /\ ~returned.failed
    /\ ~returned.dirty

\* C8: for a branch admin assigned to client C, getAccessibleClients returns
\* exactly the active nodes of the closed subtree rooted at C, for every tree
\* shape and every assignment of ids.
C8_BranchAdminGetsClosedSubtree ==
    (/\ Resolved
     /\ users[returned.userId].roles = "paddy_admin"
     /\ TruthyId(users[returned.userId].client_id))
        => ResultIds = ActiveSubtree(users[returned.userId].client_id)

\* C9: for a user whose role is admin, getAccessibleClients returns exactly
\* the active client nodes, whatever the user's client_id is.
C9_AdminGetsActiveNodes ==
    (Resolved /\ users[returned.userId].roles = "admin")
        => ResultIds = ActiveClients

\* C10: for a user that is neither admin nor branch admin and is assigned to
\* client C, getAccessibleClients returns exactly {C} when C is active and
\* the empty list when C is deactivated.
C10_RegularUserGetsOwnClient ==
    (/\ Resolved
     /\ users[returned.userId].roles \in {"user", "viewer"}
     /\ ~users[returned.userId].can_manage_hierarchy
     /\ TruthyId(users[returned.userId].client_id))
        => ResultIds =
            { x \in DOMAIN client : /\ x = users[returned.userId].client_id
                                    /\ client[x].is_active }

\* the case of C10: the user's client is deactivated while its parent and
\* its child are active, and the list is empty
C10_Witness ==
    /\ Resolved
    /\ returned.userId = 4
    /\ returned.queried = 2
    /\ 2 \in DOMAIN client
    /\ ~client[2].is_active
    /\ client[1].is_active /\ client[5].is_active
    /\ ResultIds = {}

\* C11: for a stored user whose role is not admin and whose client_id is
\* null, getAccessibleClients returns the empty list and canUserAccessClient
\* and canUserManageClient return false for every client id, also when the
\* role is a branch-admin role.
C11_NoClientNoAccess ==
    (/\ returned.op \in {"getAccessibleClients", "canUserAccessClient",
                         "canUserManageClient"}
     /\ returned.userId \in DOMAIN users
     /\ users[returned.userId].roles # "admin"
     /\ users[returned.userId].client_id = Null)
        => returned.result = Denial(returned.op)

\* the case of C11: the branch admin without client, flagged as hierarchy
\* manager, is refused the management of an existing client
C11_Witness ==
    /\ returned.op = "canUserManageClient"
    /\ returned.userId = 6
    /\ returned.clientId = 2
    /\ 2 \in DOMAIN client
    /\ ~returned.failed
    /\ returned.queried = 1
    /\ returned.result = BoolResult(FALSE)

\* C12: getAccessibleClients gives a non-admin user the subtree of its
\* client exactly when the user carries the manage-hierarchy capability and
\* has a client: with the capability the list holds the active closed
\* subtree, without it the list holds no node but the user's own client.
C12_SubtreeScopeIffCapability ==
    (Resolved /\ users[returned.userId].roles # "admin")
        => LET u == users[returned.userId] IN
           IF u.can_manage_hierarchy /\ TruthyId(u.client_id)
           THEN ActiveSubtree(u.client_id) \subseteq ResultIds
           ELSE ResultIds \subseteq {u.client_id}

\* C13: a call of getUserPermissions or hasPermission for a role that the
\* registry does not hold, or holds as inactive, resolves to the empty map
\* and to false, whatever rows role_permissions still has for that name.
\* The calls taken are those that read storage while the role stayed as it
\* is.
C13_InactiveRoleHasNoPermissions ==
    (/\ returned.op \in {"getUserPermissions", "hasPermission"}
     /\ Truthy(returned.role)
     /\ returned.queried >= 1
     /\ ~returned.dirty
     /\ \/ returned.role \notin DOMAIN roles
        \/ ~roles[returned.role].is_active)
        => returned.result = Denial(returned.op)

\* C14: a call of getUserPermissions whose reload met unavailable storage is
\* rejected, so that its caller can tell the failure from a role without
\* permissions.
C14_ReloadFailureIsRejected ==
    (returned.op = "getUserPermissions" /\ returned.failed)
        => returned.result = Rejected

\* C15: a request or a resolver call that no concurrent edit reached sees the
\* principal's row as storage holds it: req.user.role is the stored role, the
\* admin handlers run exactly for a principal stored as admin, the resolved
\* clients hold the principal's stored client when that node is active, and
\* hold nothing else for a principal stored as user or viewer.  A request
\* that edited its own principal's row is not its own next request.
C15_DecisionsFollowStoredRow ==
    /\ (/\ returned.op = "request"
        /\ returned.reqUser # NoUser
        /\ ~returned.dirty
        /\ ~(returned.target = returned.reqUser.id /\ returned.result = Status(200)))
            => /\ returned.reqUser.id \in DOMAIN users
               /\ returned.reqUser.role = users[returned.reqUser.id].roles
               /\ returned.handler = (users[returned.reqUser.id].roles = "admin")
    /\ (/\ returned.op = "getAccessibleClients"
        /\ returned.userId \in DOMAIN users
        /\ pathStyle # "unset"
        /\ ~returned.dirty
        /\ ~returned.failed)
            => LET u == users[returned.userId] IN
               /\ (u.client_id \in DOMAIN client /\ client[u.client_id].is_active)
                    => u.client_id \in ResultIds
               /\ u.roles \in {"user", "viewer"} => ResultIds \subseteq {u.client_id}

\* the case of C15: principal 4, seeded as user, has been made admin and its
\* next request reaches the handler under the same token
C15_Witness ==
    /\ returned.op = "request"
    /\ returned.headers = <<"Bearer", "jwt4">>
    /\ returned.reqUser = [id |-> 4, role |-> "admin"]
    /\ returned.route = "GET /users"
    /\ returned.handler
    /\ returned.result = Status(200)

\* the permission map that a completed dashboard decision of role had before
\* it: the cached one, or the empty one when its reload failed
DecidingMap(role) ==
    IF Truthy(role) /\ Cached(role) /\ ~returned.failed
    THEN permissionCache[CacheKey(role)].permissions
    ELSE EmptyObject

\* the decision of op as a function of the role and the map alone
RoleDecision(op, role) ==
    CASE op = "getAccessibleDashboards" ->
            ListResult({ [name |-> n] :
                n \in { d \in DOMAIN DecidingMap(role) :
                            DecidingMap(role)[d].can_access } })
      [] op = "canAccessIoTDashboard" ->
            BoolResult(role = "admin"
                       \/ HasAccessEntry(DecidingMap(role), "iot_dashboard"))
      [] op = "canAccessMotorDashboard" ->
            BoolResult(role = "admin"
                       \/ HasAccessEntry(DecidingMap(role), "motor_dashboard"))

\* C16: canAccessIoTDashboard, canAccessMotorDashboard and
\* getAccessibleDashboards resolve to a value fixed by the role and the
\* role's permission map, whatever clientId is passed; the cache has entries
\* under role keys only, each a permission map and a timestamp with no client
\* in it.
C16_DecisionDependsOnRoleOnly ==
    /\ returned.op \in {"canAccessIoTDashboard", "canAccessMotorDashboard",
                        "getAccessibleDashboards"}
            => returned.result = RoleDecision(returned.op, returned.role)
    /\ \A k \in DOMAIN permissionCache :
            /\ \E r \in RoleNames : k = CacheKey(r)
            /\ DOMAIN permissionCache[k] = {"permissions", "timestamp"}
            /\ \A d \in DOMAIN permissionCache[k].permissions :
                    DOMAIN permissionCache[k].permissions[d]
                        = {"dashboard_id", "can_access"}

\* the case of C16: a viewer of client 6 is denied the motor dashboard from
\* the map that a principal without client had loaded
C16_Witness ==
    /\ returned.op = "canAccessMotorDashboard"
    /\ returned.role = "viewer"
    /\ returned.clientId = 6
    /\ returned.queried = 0
    /\ returned.cacheRead
    /\ returned.result = BoolResult(FALSE)

\* the listing as the caller wrote it, before any scope is applied
Unscoped == [all |-> TRUE, ids |-> {}]

C18_AdminHandlersBehindGuards ==
    returned.op = "request"
        => /\ returned.handler
                => /\ returned.reqUser # NoUser
                   /\ returned.reqUser.role = "admin"
           /\ ~jwt_verify(BearerToken(returned.headers)).ok
                => /\ returned.result = Status(401)
                   /\ ~returned.handler
                   /\ returned.queried = 0
           /\ (returned.reqUser # NoUser /\ returned.reqUser.role # "admin")
                => /\ returned.result = Status(403)
                   /\ ~returned.handler
                   /\ returned.queried = 1

\* the case of C18: principal 4, not an admin, asks for the deletion of the
\* admin's row and is refused, the row still stored
C18_Witness ==
    /\ returned.op = "request"
    /\ returned.headers = <<"Bearer", "jwt4">>
    /\ returned.route = "DELETE /users/:userId"
    /\ returned.target = 1
    /\ returned.reqUser.id = 4
    /\ returned.result = Status(403)
    /\ ~returned.handler
    /\ 1 \in DOMAIN users

\* the least role that a guard is named for
MinimumRole(name) ==
    CASE name = "requireViewerOrAbove" -> "viewer"
      [] name = "requireUserOrAdmin" -> "user"
      [] name = "requireAdmin" -> "admin"

\* rank(R) >= rank(M) in the order viewer < dashboard_viewer < user < admin
Outranks(role, minimum) ==
    RoleLevel(ROLE_HIERARCHY, role) >= RoleLevel(ROLE_HIERARCHY, minimum)

\* C19: for an authenticated user of role R, ProtectedRoute with required
\* role M renders its children exactly when rank(R) >= rank(M) in the order
\* viewer(1) < dashboard_viewer(2) < user(3) < admin(4), and a backend guard
\* named for the minimum role M admits a request of role R exactly then.
C19_GuardsFollowRank ==
    /\ (/\ returned.op = "ProtectedRoute"
        /\ ~returned.props.isLoading
        /\ returned.props.isAuthenticated
        /\ Truthy(returned.props.user.role)
        /\ Truthy(returned.props.requiredRole))
            => (returned.result.val = "children")
                    = Outranks(returned.props.user.role, returned.props.requiredRole)
    /\ (returned.op \in GuardNames /\ returned.reqUser # NoUser)
            => (returned.result = CallNext)
                    = Outranks(returned.reqUser.role, MinimumRole(returned.op))

\* C20: when one of the three permission calls of the dashboard page is
\* rejected, canAccessIoT, canAccessMotor and shouldShowTabs stay false for
\* every role and no dashboard data is fetched.
C20_NoPermissiveFallback ==
    (returned.op = "checkPermissions" /\ returned.failed)
        => /\ ~returned.result.canAccessIoT
           /\ ~returned.result.canAccessMotor
           /\ ~returned.result.shouldShowTabs
           /\ ~returned.result.iotFetched

\* C21: whatever updates and deletions the admin router has served, the
\* table users holds a row whose role is admin.
C21_AnAdminRemains ==
    \E u \in DOMAIN users : users[u].roles = "admin"

\* C22: a DELETE /users/:userId that reaches its handler with :userId equal
\* to the id of req.user ends with 400 and the row of that user is still
\* stored.
C22_SelfDeleteRejected ==
    (/\ returned.op = "request"
     /\ returned.route = "DELETE /users/:userId"
     /\ returned.handler
     /\ returned.target = returned.reqUser.id)
        => /\ returned.result = Status(400)
           /\ returned.target \in DOMAIN users

\* C23: a getUserPermissions call that answered from the cache found an
\* entry younger than cacheTimeout; a call that did not (the entry absent or
\* of age cacheTimeout or more) returned after its own storage read, with
\* the map storage holds when no write reached the call, and left the entry
\* stamped with the time at which it returned.
C23_TtlBoundary ==
    (returned.op = "getUserPermissions" /\ Truthy(returned.role))
        => IF returned.queried = 0
           THEN /\ Cached(returned.role)
                /\ now - permissionCache[CacheKey(returned.role)].timestamp
                        < cacheTimeout
                /\ returned.result
                        = MapResult(permissionCache[CacheKey(returned.role)].permissions)
           ELSE returned.failed
                \/ /\ Cached(returned.role)
                   /\ permissionCache[CacheKey(returned.role)].timestamp = now
                   /\ ~returned.dirty => returned.result = StoredPermissions(returned.role)

\* the case of C23: an entry one millisecond short of cacheTimeout is
\* returned without a storage read
C23_Witness ==
    /\ returned.op = "getUserPermissions"
    /\ returned.role = "viewer"
    /\ returned.queried = 0
    /\ Cached("viewer")
    /\ now - permissionCache[CacheKey("viewer")].timestamp = cacheTimeout - 1

\* C24: the step that resumes a lookup whose storage read failed leaves
\* permissionCache as it was; a step creates or replaces the entry of a role
\* only when it resumes a lookup of that role whose read succeeded; and a
\* getUserPermissions call that read storage with success, no write having
\* reached it, returns the permissions storage holds for the role.
C24_FailedReloadLeavesCache ==
    [][ /\ (\E f \in BagToSet(calls) :
                /\ f.pc = "resume"
                /\ f.answer.kind = "error"
                /\ f.pending = NoQuery
                /\ f.stage = "permissions"
                /\ f \notin BagToSet(calls'))
            => permissionCache' = permissionCache
        /\ \A k \in DOMAIN permissionCache' :
            (k \notin DOMAIN permissionCache \/ permissionCache'[k] # permissionCache[k])
                => \E f \in BagToSet(calls) :
                        /\ f.pc = "resume"
                        /\ f.role = RoleOfKey(k)
                        /\ f.answer.kind = "rows"
        /\ (/\ returned'.op = "getUserPermissions"
            /\ returned'.queried >= 1
            /\ ~returned'.failed
            /\ ~returned'.dirty)
            => \E role \in RoleNames :
                    /\ role = returned'.role
                    /\ returned'.result = StoredPermissions(role)'
      ]_vars

\* the case of C24: a lookup of a role whose entry has expired fails, an
\* empty map is returned and the expired entry is still the one cached
C24_Witness ==
    /\ returned.op = "getUserPermissions"
    /\ returned.failed
    /\ returned.result = MapResult(EmptyObject)
    /\ Cached(returned.role)
    /\ permissionCache[CacheKey(returned.role)].permissions # EmptyObject
    /\ ~CacheHit(returned.role)

\* C25: when refreshAllCaches returns, the cache holds an entry for exactly
\* the roles that were cached when it was called, each entry stamped no
\* earlier than the call and, when no write reached the call, holding the
\* permissions storage holds for its role.
C25_RefreshKeepsEveryRole ==
    returned.op = "refreshAllCaches"
        => /\ refreshAllCaches_roles(permissionCache) = returned.roles
           /\ \A k \in DOMAIN permissionCache :
                /\ permissionCache[k].timestamp >= returned.startedAt
                /\ ~returned.dirty
                    => MapResult(permissionCache[k].permissions)
                            = StoredPermissions(RoleOfKey(k))

\* the parent links from id end at a root within fuel steps
RECURSIVE ReachesRoot(_, _)
ReachesRoot(id, fuel) ==
    IF id = Null THEN TRUE
    ELSE IF fuel = 0 \/ id \notin DOMAIN client THEN FALSE
    ELSE ReachesRoot(client[id].parent_client_id, fuel - 1)

\* the hierarchy_path that the parent links of id spell
RECURSIVE ChainPath(_, _)
ChainPath(id, fuel) ==
    IF fuel = 0 \/ client[id].parent_client_id = Null
    THEN PathOf(pathStyle, <<>>, id)
    ELSE PathOf(pathStyle, ChainPath(client[id].parent_client_id, fuel - 1), id)

\* a node on a cycle of parent links, or whose stored hierarchy_path is not
\* the one its parent links spell
MalformedNode(id) ==
    \/ ~ReachesRoot(id, Cardinality(DOMAIN client))
    \/ client[id].hierarchy_path # ChainPath(id, Cardinality(DOMAIN client))

\* C26: getAccessibleClients returns after at most two storage queries, and
\* for a stored user who is not an admin and whose client is a malformed node
\* it returns the empty list.
C26_MalformedHierarchyFailsClosed ==
    /\ returned.op = "getAccessibleClients" => returned.queried <= 2
    /\ (/\ Resolved
        /\ users[returned.userId].roles # "admin"
        /\ users[returned.userId].client_id \in DOMAIN client
        /\ MalformedNode(users[returned.userId].client_id))
            => ResultIds = {}

\* C27: when getAccessibleDashboards(R) has returned, no read of it having
\* failed and no write having reached it, an active dashboard is in the
\* returned list if and only if hasPermission(R, D) called in that state
\* is true, for every role R, admin included.
C27_ListAgreesWithHasPermission ==
    (/\ returned.op = "getAccessibleDashboards"
     /\ ~returned.failed
     /\ ~returned.dirty)
        => \A d \in DOMAIN dashboards :
            dashboards[d].is_active
                => ([name |-> dashboards[d].name] \in returned.result.val
                        <=> hasPermission_value(returned.role, dashboards[d].name))

\* C28: once the hierarchy is onboarded, when canUserManageClient(U, X) has
\* returned true, no read of it having failed and no write having reached
\* it, canUserAccessClient(U, X) called in that state is true, for every
\* user, admins included, and every client id, stored or not.
C28_ManageImpliesAccess ==
    (/\ returned.op = "canUserManageClient"
     /\ pathStyle \in PathStyles
     /\ ~returned.failed
     /\ ~returned.dirty
     /\ returned.result = BoolResult(TRUE))
        => canUserAccessClient_value(returned.userId, returned.clientId)
                = BoolResult(TRUE)

\* the payload of the bearer token of the request that returned
Decoded == jwt_verify(BearerToken(returned.headers))

\* C29: a request that no write reached has gone past authenticateToken
\* (req.user is set) only if its bearer token verifies and the row of its
\* user is stored and active; a request without a token, or whose token does
\* not verify, or whose user is not stored or not active while the lookup
\* was answered, ends with 401 and req.user unset; a request whose user
\* lookup failed ends with 500.
C29_NextOnlyForActiveUsers ==
    (returned.op = "request" /\ ~returned.dirty)
        => /\ returned.reqUser # NoUser
                => /\ Truthy(BearerToken(returned.headers))
                   /\ Decoded.ok
                   /\ Decoded.userId \in DOMAIN users
                   /\ users[Decoded.userId].is_active
           /\ (\/ ~Truthy(BearerToken(returned.headers))
               \/ ~Decoded.ok
               \/ /\ ~returned.failed
                  /\ \/ Decoded.userId \notin DOMAIN users
                     \/ ~users[Decoded.userId].is_active)
                => /\ returned.result = Status(401)
                   /\ returned.reqUser = NoUser
           /\ (/\ Truthy(BearerToken(returned.headers))
               /\ Decoded.ok
               /\ returned.failed
               /\ returned.reqUser = NoUser)
                => returned.result = Status(500)

\* C30: ProtectedRoute with a requiredRole renders its children only when
\* loading has finished, the visitor is authenticated, a user object is
\* present and the rank of its role is at least the rank required, a role
\* outside the hierarchy ranking 0; an unauthenticated visitor is sent to
\* /login once loading has finished.
C30_ChildrenOnlyForRankedUsers ==
    (returned.op = "ProtectedRoute" /\ Truthy(returned.props.requiredRole))
        => /\ returned.result.val = "children"
                => /\ ~returned.props.isLoading
                   /\ returned.props.isAuthenticated
                   /\ returned.props.user.present
                   /\ RoleLevel(roleHierarchy, returned.props.user.role)
                        >= RoleLevel(roleHierarchy, returned.props.requiredRole)
           /\ (~returned.props.isLoading /\ ~returned.props.isAuthenticated)
                => returned.result.val = "login"

====
